---------------------------- MODULE Spec2Model ----------------------------
(***************************************************************************)
(* A model of go-fluent-validator: the field types (core.BaseType and the  *)
(* concrete types of package types), the ValidationResult accumulator and  *)
(* the ValidationSchema orchestration of package validation.               *)
(*                                                                         *)
(* Go values of type `any` are records [t, v]: t is the dynamic type and v *)
(* a sequence holding the payload (the characters of a string, a single    *)
(* number).  Go maps are functions whose DOMAIN is the key set.            *)
(***************************************************************************)
EXTENDS Integers, Sequences, FiniteSets, TLC

(***************************************************************************)
(* Bounds of the model.                                                    *)
(***************************************************************************)
MaxCross == 1      \* most cross-validators registered on one schema
MaxRules == 1      \* most When rules registered on one schema
MaxPending == 1    \* most errors already in a result handed to Type.Validate
MaxTransforms == 2 \* most transform steps added to one Type
MaxCustom == 1     \* most custom callbacks added to one Type
MaxStepCross == 2  \* most cross-validators of a schema whose Validate is stepped
MaxStepRules == 1  \* most When rules of a schema whose Validate is stepped
MaxSync == 2       \* most callbacks handed to AddSync of one CustomValidation
MaxCvRules == 2    \* most Rules handed to AddRule of one CustomValidation

(***************************************************************************)
(* Values                                                                  *)
(***************************************************************************)
Nil == [t |-> "nil", v |-> <<>>]
Str(s) == [t |-> "string", v |-> s]
GoInt(n) == [t |-> "int", v |-> <<n>>]
Bool(b) == [t |-> "bool", v |-> <<IF b THEN 1 ELSE 0>>]
\* a map[string]any holds its map, a []any its elements
MapVal(m) == [t |-> "map", v |-> <<m>>]
Slice(elems) == [t |-> "slice", v |-> elems]

IsNil(x) == x.t = "nil"
\* Go's == on two interface values: same dynamic type and same value.
AnyEq(x, y) == x.t = y.t /\ x.v = y.v

(***************************************************************************)
(* Go maps                                                                 *)
(***************************************************************************)
EmptyMap == [k \in {} |-> Nil]
MapPut(m, k, x) == [j \in (DOMAIN m) \cup {k} |-> IF j = k THEN x ELSE m[j]]
\* m[k] of Go: the zero value (nil) for an absent key.
MapGet(m, k) == IF k \in DOMAIN m THEN m[k] ELSE Nil
\* all orders in which a `range` over a map with key set S can visit the keys
Orders(S) ==
  {o \in [1..Cardinality(S) -> S] : \A x \in S : \E i \in 1..Cardinality(S) : o[i] = x}

(***************************************************************************)
(* core.ValidationResult: errors is a map from field key to the list of    *)
(* messages of that key.                                                   *)
(***************************************************************************)
AddError(errs, field, message) ==
  MapPut(errs, field, IF field \in DOMAIN errs THEN Append(errs[field], message)
                                               ELSE <<message>>)

HasErrors(errs) == DOMAIN errs # {}

\* i18n.Get(key, args...): the message of key with its placeholders filled;
\* a message is the sequence of its key and its arguments.
Get(key, args) == <<key>> \o args

(***************************************************************************)
(* strings.TrimSpace                                                       *)
(***************************************************************************)
IsSpace(c) == c = " "

RECURSIVE TrimLeft(_)
TrimLeft(s) == IF s # <<>> /\ IsSpace(Head(s)) THEN TrimLeft(Tail(s)) ELSE s

RECURSIVE TrimRight(_)
TrimRight(s) ==
  IF s # <<>> /\ IsSpace(s[Len(s)]) THEN TrimRight(SubSeq(s, 1, Len(s) - 1)) ELSE s

TrimSpace(s) == TrimRight(TrimLeft(s))

\* the index of the first ">" of s at or after i, 0 when there is none
RECURSIVE FirstClose(_, _)
FirstClose(s, i) ==
  IF i > Len(s) THEN 0 ELSE IF s[i] = ">" THEN i ELSE FirstClose(s, i + 1)

\* rules.StripHtmlTags: htmlTagRegex <[^>]*> replaced by "" (leftmost matches)
RECURSIVE StripHtmlTags(_)
StripHtmlTags(s) ==
  IF s = <<>> THEN <<>>
  ELSE IF Head(s) = "<" /\ FirstClose(s, 2) # 0
    THEN StripHtmlTags(SubSeq(s, FirstClose(s, 2) + 1, Len(s)))
    ELSE <<Head(s)>> \o StripHtmlTags(Tail(s))

\* alphaRegex ^[a-zA-Z]+$ over the model's alphabet
IsLetter(c) == c \in {"a", "b"}
MatchAlpha(s) == s # <<>> /\ \A i \in 1..Len(s) : IsLetter(s[i])

\* strings.Contains(s, sub)
Contains(s, sub) ==
  \E i \in 1..(Len(s) - Len(sub) + 1) : SubSeq(s, i, i + Len(sub) - 1) = sub

\* the index of the first sep of s at or after i, 0 when there is none
RECURSIVE IndexFrom(_, _, _)
IndexFrom(s, sep, i) ==
  IF i > Len(s) THEN 0 ELSE IF s[i] = sep THEN i ELSE IndexFrom(s, sep, i + 1)

\* strings.Split(s, sep) for a separator of one character
RECURSIVE Split(_, _)
Split(s, sep) ==
  LET j == IndexFrom(s, sep, 1)
  IN  IF j = 0 THEN <<s>>
      ELSE <<SubSeq(s, 1, j - 1)>> \o Split(SubSeq(s, j + 1, Len(s)), sep)

\* [a-zA-Z0-9] over the model's alphabet
IsAlnum(c) == IsLetter(c) \/ c \in {"0", "1"}

\* [a-zA-Z0-9]+(<sep>[a-zA-Z0-9]+)* for the separators seps
MatchLabels(s, seps) ==
  /\ s # <<>>
  /\ \A i \in 1..Len(s) : IsAlnum(s[i]) \/ s[i] \in seps
  /\ IsAlnum(s[1]) /\ IsAlnum(s[Len(s)])
  /\ \A i \in 1..(Len(s) - 1) : ~(s[i] \in seps /\ s[i + 1] \in seps)

\* the index of the last "." of s, 0 when there is none
LastDot(s) ==
  IF \E i \in 1..Len(s) : s[i] = "."
    THEN CHOOSE i \in 1..Len(s) : s[i] = "." /\ \A j \in (i + 1)..Len(s) : s[j] # "."
    ELSE 0

\* emailRegex
\* ^[a-zA-Z0-9]+([._+-][a-zA-Z0-9]+)*@[a-zA-Z0-9]+([.-][a-zA-Z0-9]+)*\.[a-zA-Z]{2,}$
MatchEmail(s) ==
  LET parts == Split(s, "@")
  IN  /\ Len(parts) = 2
      /\ MatchLabels(parts[1], {".", "_", "+", "-"})
      /\ LET domain == parts[2]
             dot == LastDot(domain)
         IN  /\ dot > 1
             /\ MatchLabels(SubSeq(domain, 1, dot - 1), {".", "-"})
             /\ Len(domain) - dot >= 2
             /\ \A i \in (dot + 1)..Len(domain) : IsLetter(domain[i])

\* RegexRule.Validate: the pattern is stored and never applied
RegexRuleValidate(value) == IF value.t # "string" THEN "value must be string" ELSE ""

(***************************************************************************)
(* core.CustomValidation                                                   *)
(*                                                                         *)
(* A callback is [wrap, fn]: fn names the user's function and wrap the     *)
(* type whose Custom method wrapped it ("none" for a callback handed to    *)
(* AddSync as it is).  An error is its text, "" is the nil error.          *)
(***************************************************************************)
\* the user's callbacks: "reject" fails for every value, "short" for a
\* string of fewer than 2 characters, "accept" for none
UserFn(fn, value) ==
  IF fn = "regex" THEN RegexRuleValidate(value)
  ELSE IF fn = "reject" THEN "rejected"
  ELSE IF fn = "short" /\ value.t = "string" /\ Len(value.v) < 2 THEN "too short"
  ELSE ""

\* the closure the Custom method of a type hands to AddSync
RunSync(cb, value) ==
  CASE cb.wrap = "string" ->
         IF value.t # "string" THEN "value must be string" ELSE UserFn(cb.fn, value)
    [] cb.wrap = "number" ->
         IF IsNil(value) THEN ""
         ELSE IF value.t \notin {"int", "int8", "int16", "int32", "int64",
                                 "float32", "float64"}
           THEN "value must be number" ELSE UserFn(cb.fn, value)
    [] cb.wrap = "boolean" ->
         IF IsNil(value) THEN ""
         ELSE IF value.t # "bool" THEN "value must be boolean"
         ELSE UserFn(cb.fn, value)
    [] cb.wrap = "object" ->
         IF IsNil(value) THEN ""
         ELSE IF value.t # "map" THEN "value must be object (map[string]any)"
         ELSE UserFn(cb.fn, value)
    [] cb.wrap = "array" ->
         IF IsNil(value) THEN ""
         ELSE IF value.t # "slice" THEN "value must be array"
         ELSE UserFn(cb.fn, value)
    [] OTHER -> UserFn(cb.fn, value)

NewCustomValidation == [isNil |-> FALSE, syncValidators |-> <<>>, rules |-> <<>>]
\* a nil *CustomValidation
NilCustomValidation == [isNil |-> TRUE, syncValidators |-> <<>>, rules |-> <<>>]

AddSync(cv, validator) == [cv EXCEPT !.syncValidators = Append(@, validator)]
NewRule(validator, message) == [fn |-> validator, message |-> message]
NewRegexRule(pattern, message) == [fn |-> "regex", pattern |-> pattern, message |-> message]
AddRule(cv, rule) == [cv EXCEPT !.rules = Append(@, rule)]

HasValidators(cv) == Len(cv.syncValidators) > 0 \/ Len(cv.rules) > 0

\* mutant: the loops stop at the first failure
RECURSIVE ValidateSyncFromStop(_, _, _, _, _)
ValidateSyncFromStop(cv, i, field, value, errs) ==
  IF i > Len(cv.syncValidators) + Len(cv.rules) THEN errs
  ELSE IF i <= Len(cv.syncValidators)
    THEN LET err == RunSync(cv.syncValidators[i], value)
         IN  IF err # "" THEN AddError(errs, field, <<err>>)
             ELSE ValidateSyncFromStop(cv, i + 1, field, value, errs)
    ELSE LET rule == cv.rules[i - Len(cv.syncValidators)]
             err == UserFn(rule.fn, value)
             message == IF rule.message = "" THEN err ELSE rule.message
         IN  IF err # "" THEN AddError(errs, field, <<message>>)
             ELSE ValidateSyncFromStop(cv, i + 1, field, value, errs)

RECURSIVE ValidateSyncFrom(_, _, _, _, _)
ValidateSyncFrom(cv, i, field, value, errs) ==
  IF i > Len(cv.syncValidators) + Len(cv.rules) THEN errs
  ELSE IF i <= Len(cv.syncValidators)
    THEN LET err == RunSync(cv.syncValidators[i], value)
         IN  ValidateSyncFrom(cv, i + 1, field, value,
                              IF err # "" THEN AddError(errs, field, <<err>>) ELSE errs)
    ELSE LET rule == cv.rules[i - Len(cv.syncValidators)]
             err == UserFn(rule.fn, value)
             message == IF rule.message = "" THEN err ELSE rule.message
         IN  ValidateSyncFrom(cv, i + 1, field, value,
                              IF err # "" THEN AddError(errs, field, <<message>>) ELSE errs)

ValidateSync(cv, field, value, errs) == ValidateSyncFrom(cv, 1, field, value, errs)

(***************************************************************************)
(* core.BaseType and the builders of the concrete types.  A Type is one    *)
(* record for every kind; a constraint pointer that is nil in Go is Nil.   *)
(***************************************************************************)
\* a nil core.Type
NilType == [kind |-> "nil"]

NewType(kind) ==
  [kind |-> kind, isRequired |-> FALSE, label |-> "", defaultValue |-> Nil,
   transformations |-> <<>>, minLength |-> Nil, maxLength |-> Nil,
   isAlpha |-> FALSE, min |-> Nil, max |-> Nil,
   emailRegex |-> FALSE, charSet |-> Nil,
   customValidation |-> NilCustomValidation,
   shape |-> EmptyMap, elementSchema |-> NilType]

String == NewType("string")
Number == NewType("number")
Boolean == NewType("boolean")
AdvancedString == NewType("advanced")
Array == NewType("array")
Object == NewType("object")

SetRequired(b) == [b EXCEPT !.isRequired = TRUE]
SetLabel(b, label) == [b EXCEPT !.label = label]
SetDefault(b, value) == [b EXCEPT !.defaultValue = value]
AddTransform(b, fn) == [b EXCEPT !.transformations = Append(@, fn)]
GetLabel(b, defaultLabel) == IF b.label # "" THEN b.label ELSE defaultLabel

Required(t) == SetRequired(t)
\* StringType.Default and BooleanType.Default store the value as given;
\* NumberType.Default stores an int or a float32 as a float64
Default(t, value) ==
  IF t.kind = "number" /\ value.t \in {"int", "float32"}
    THEN SetDefault(t, [t |-> "float64", v |-> value.v])
    ELSE SetDefault(t, value)
Trim(t) == AddTransform(t, "Trim")
StripTags(t) == AddTransform(t, "StripTags")
\* StringType.Min / Max and ArrayType.Min / Max set the length limits,
\* NumberType.Min / Max the range
Min(t, n) == IF t.kind \in {"string", "advanced", "array"} THEN [t EXCEPT !.minLength = GoInt(n)]
                                               ELSE [t EXCEPT !.min = GoInt(n)]
Max(t, n) == IF t.kind \in {"string", "advanced", "array"} THEN [t EXCEPT !.maxLength = GoInt(n)]
                                               ELSE [t EXCEPT !.max = GoInt(n)]
\* ObjectType.Shape and ArrayType.Elements
ObjectShape(t, m) == [t EXCEPT !.shape = m]
Elements(t, elementSchema) == [t EXCEPT !.elementSchema = elementSchema]
Alpha(t) == [t EXCEPT !.isAlpha = TRUE]
\* AdvancedStringType.CharSet
CharSet(t, set) == [t EXCEPT !.charSet = Str(set)]
\* StringType.Email: emailRegex is TRUE when the pointer is set
Email(t) == [t EXCEPT !.emailRegex = TRUE]
Custom(t, fn) ==
  LET cv == IF t.customValidation.isNil THEN NewCustomValidation
            ELSE t.customValidation
  IN  [t EXCEPT !.customValidation =
         [cv EXCEPT !.syncValidators =
            Append(@, [wrap |-> IF t.kind = "advanced" THEN "string" ELSE t.kind,
                       fn |-> fn])]]

\* one step of a transform chain: [value, err]
ApplyTransform(fn, value) ==
  IF fn = "Trim"
    THEN IF value.t # "string"
           THEN [value |-> Nil, err |-> "Trim sadece string degerler icin uygulanabilir"]
           ELSE [value |-> Str(TrimSpace(value.v)), err |-> ""]
  ELSE IF fn = "StripTags"
    THEN IF value.t # "string"
           THEN [value |-> Nil,
                 err |-> "StripTags sadece string degerler icin uygulanabilir"]
           ELSE [value |-> Str(StripHtmlTags(value.v)), err |-> ""]
    ELSE [value |-> value, err |-> ""]

RECURSIVE RunChain(_, _, _)
RunChain(fns, i, value) ==
  IF i > Len(fns) THEN [value |-> value, err |-> ""]
  ELSE LET r == ApplyTransform(fns[i], value)
       IN  IF r.err # "" THEN [value |-> Nil, err |-> r.err]
           ELSE RunChain(fns, i + 1, r.value)

\* mutant: the default is substituted after the chain has run
BaseTypeTransformAfter(b, value) ==
  LET r == IF IsNil(value) THEN [value |-> Nil, err |-> ""]
           ELSE RunChain(b.transformations, 1, value)
  IN  IF r.err = "" /\ IsNil(r.value) /\ ~IsNil(b.defaultValue)
        THEN [value |-> b.defaultValue, err |-> ""] ELSE r

BaseTypeTransform(b, value) ==
  LET v == IF IsNil(value) /\ ~IsNil(b.defaultValue) THEN b.defaultValue ELSE value
  IN  IF IsNil(v) THEN [value |-> Nil, err |-> ""]
      ELSE RunChain(b.transformations, 1, v)

\* Type.Transform: String, Number and Boolean inherit BaseType.Transform
TypeTransform(typ, value) == BaseTypeTransform(typ, value)

BaseTypeValidate(b, field, value, errs) ==
  LET fieldName == GetLabel(b, field)
  IN  IF b.isRequired /\ (IsNil(value) \/ AnyEq(value, Str(<<>>)))
        THEN AddError(errs, field, Get("validation.required", <<fieldName>>))
        ELSE errs

AddErrorIf(cond, errs, field, message) ==
  IF cond THEN AddError(errs, field, message) ELSE errs

RunCustom(t, field, value, errs) ==
  IF ~t.customValidation.isNil /\ HasValidators(t.customValidation)
    THEN ValidateSync(t.customValidation, field, value, errs)
    ELSE errs

(***************************************************************************)
(* types.StringType.Validate.  The checks that stay unconfigured in every  *)
(* Type of this model (url, oneOf, password, ip, phone, the other          *)
(* charsets, prefix/suffix/contains, regex, MAC, hex, base64) are guarded  *)
(* by a nil or false field in the code and add nothing.                    *)
(***************************************************************************)
\* the top-level domain of an address with one "@" is shorter than 2
ShortTld(str) ==
  LET parts == Split(str, "@")
  IN  /\ Len(parts) = 2
      /\ LET domainParts == Split(parts[2], ".")
         IN  Len(domainParts[Len(domainParts)]) < 2

\* the built-in checks of a string: [errors, returned], returned when
\* Validate returns from inside a check
StringBuiltin(s, field, value, errs) ==
    LET str == value.v
        fieldName == GetLabel(s, field)
        e1 == AddErrorIf(~IsNil(s.minLength) /\ Len(str) < s.minLength.v[1], errs, field,
                 Get("validation.min_length", <<fieldName, ToString(s.minLength.v[1])>>))
        e2 == AddErrorIf(~IsNil(s.maxLength) /\ Len(str) > s.maxLength.v[1], e1, field,
                 Get("validation.max_length", <<fieldName, ToString(s.maxLength.v[1])>>))
    IN  \* the first two email checks return from Validate
        IF s.emailRegex /\ (Contains(str, <<".", ".">>) \/ ShortTld(str))
          THEN [errors |-> AddError(e2, field, Get("validation.email", <<fieldName>>)),
                returned |-> TRUE]
        ELSE
          LET e3 == AddErrorIf(s.emailRegex /\ ~MatchEmail(str), e2, field,
                      Get("validation.email", <<fieldName>>))
              e4 == AddErrorIf(s.isAlpha /\ ~MatchAlpha(str), e3, field,
                      Get("validation.alpha", <<fieldName>>))
          IN  [errors |-> e4, returned |-> FALSE]

StringChecks(s, field, value, errs) ==
  IF IsNil(value) THEN errs
  ELSE IF value.t # "string"
    THEN AddError(errs, field, Get("validation.string", <<GetLabel(s, field)>>))
  ELSE
    LET b == StringBuiltin(s, field, value, errs)
    IN  IF b.returned THEN b.errors ELSE RunCustom(s, field, value, b.errors)

\* mutant: the checks run although the required check has failed
StringTypeValidateNoGate(s, field, value, errs) ==
  StringChecks(s, field, value, BaseTypeValidate(s, field, value, errs))

StringTypeValidate(s, field, value, errs) ==
  LET r == BaseTypeValidate(s, field, value, errs)
  IN  IF HasErrors(r) THEN r ELSE StringChecks(s, field, value, r)

(***************************************************************************)
(* types.NumberType.Validate (integer, positive, negative, multipleOf and  *)
(* between stay unconfigured in this model).                               *)
(***************************************************************************)
NumericTypes == {"int", "int8", "int16", "int32", "int64", "float64", "float32"}

NumberChecks(n, field, value, errs) ==
  IF IsNil(value) THEN errs
  ELSE
    LET fieldName == GetLabel(n, field)
    IN  IF value.t \notin NumericTypes
          THEN AddError(errs, field, Get("validation.numeric", <<fieldName>>))
        ELSE
          LET num == value.v[1]
              e1 == AddErrorIf(~IsNil(n.min) /\ num < n.min.v[1], errs, field,
                       Get("validation.min", <<fieldName, ToString(n.min.v[1])>>))
              e2 == AddErrorIf(~IsNil(n.max) /\ num > n.max.v[1], e1, field,
                       Get("validation.max", <<fieldName, ToString(n.max.v[1])>>))
          IN  RunCustom(n, field, value, e2)

NumberTypeValidate(n, field, value, errs) ==
  LET r == BaseTypeValidate(n, field, value, errs)
  IN  IF HasErrors(r) THEN r ELSE NumberChecks(n, field, value, r)

(***************************************************************************)
(* types.BooleanType.Validate                                              *)
(***************************************************************************)
BooleanChecks(b, field, value, errs) ==
  IF IsNil(value) THEN errs
  ELSE IF value.t # "bool"
    THEN AddError(errs, field, Get("validation.boolean", <<GetLabel(b, field)>>))
  ELSE RunCustom(b, field, value, errs)

BooleanTypeValidate(b, field, value, errs) ==
  LET r == BaseTypeValidate(b, field, value, errs)
  IN  IF HasErrors(r) THEN r ELSE BooleanChecks(b, field, value, r)

\* Type.Validate, dispatched on the concrete type
(***************************************************************************)
(* types.AdvancedStringType.Validate (turkishChars and domainCheck stay    *)
(* unconfigured in this model).                                            *)
(***************************************************************************)
\* rules.ValidateCharSet: "alpha" is ^[a-zA-Z]+$, "alphanumeric"
\* ^[a-zA-Z0-9]+$, an unknown set matches nothing
ValidateCharSet(input, charSet) ==
  CASE charSet = "alpha" -> MatchAlpha(input)
    [] charSet = "alphanumeric" -> input # <<>> /\ \A i \in 1..Len(input) : IsAlnum(input[i])
    [] OTHER -> FALSE

\* the checks after StringType.Validate has returned
AdvancedChecks(as, field, value, errs) ==
  IF HasErrors(errs) \/ IsNil(value) THEN errs
  ELSE LET str == IF value.t = "string" THEN value.v ELSE <<>>
       IN  AddErrorIf(~IsNil(as.charSet) /\ ~ValidateCharSet(str, as.charSet.v), errs, field,
                      <<"alani karakter setine uymalidir", GetLabel(as, field), as.charSet.v>>)

AdvancedStringTypeValidate(as, field, value, errs) ==
  AdvancedChecks(as, field, value, StringTypeValidate(as, field, value, errs))

TypeValidate(typ, field, value, errs) ==
  CASE typ.kind = "string" -> StringTypeValidate(typ, field, value, errs)
    [] typ.kind = "advanced" -> AdvancedStringTypeValidate(typ, field, value, errs)
    [] typ.kind = "number" -> NumberTypeValidate(typ, field, value, errs)
    [] typ.kind = "boolean" -> BooleanTypeValidate(typ, field, value, errs)

(***************************************************************************)
(* types.ObjectType.Validate and types.ArrayType.Validate.  An object      *)
(* ranges over its shape map, so Validate of a nested Type yields the set  *)
(* of the error maps of all visiting orders.                               *)
(***************************************************************************)
\* fmt.Sprintf("%s.%s", field, subField) and fmt.Sprintf("%s[%d]", field, i)
\* mutant: a sub-field's errors go under the sub-field's own name
SubFieldPathBare(field, subField) == subField
SubFieldPath(field, subField) == field \o "." \o subField
ElementFieldPath(field, i) == field \o "[" \o ToString(i) \o "]"

RECURSIVE NestedValidate(_, _, _, _)
RECURSIVE ObjectFields(_, _, _, _, _, _)
RECURSIVE ArrayElements(_, _, _, _, _)

\* the loop over o.shape, visiting it in order ord, from position i on
ObjectFields(o, field, data, ord, i, errs) ==
  IF i > Len(ord) THEN {errs}
  ELSE UNION { ObjectFields(o, field, data, ord, i + 1, e)
               : e \in NestedValidate(o.shape[ord[i]], SubFieldPath(field, ord[i]),
                                      MapGet(data, ord[i]), errs) }

ObjectTypeValidate(o, field, value, errs) ==
  LET r == BaseTypeValidate(o, field, value, errs)
  IN  IF HasErrors(r) \/ IsNil(value) THEN {r}
      ELSE IF value.t # "map"
        THEN {AddError(r, field, Get("validation.object", <<GetLabel(o, field)>>))}
      ELSE { RunCustom(o, field, value, e)
             : e \in UNION { ObjectFields(o, field, value.v[1], ord, 1, r)
                             : ord \in Orders(DOMAIN o.shape) } }

\* the loop over the elements, from the element of index i (0-based) on
ArrayElements(a, field, slice, i, errs) ==
  IF i >= Len(slice) THEN {errs}
  ELSE UNION { ArrayElements(a, field, slice, i + 1, e)
               : e \in NestedValidate(a.elementSchema, ElementFieldPath(field, i),
                                      slice[i + 1], errs) }

\* the minLength and maxLength checks of an array
ArrayLengthChecks(a, field, slice, errs) ==
  LET fieldName == GetLabel(a, field)
      e1 == AddErrorIf(~IsNil(a.minLength) /\ Len(slice) < a.minLength.v[1], errs, field,
              <<"alaninda en az eleman olmalidir", fieldName, ToString(a.minLength.v[1])>>)
  IN  AddErrorIf(~IsNil(a.maxLength) /\ Len(slice) > a.maxLength.v[1], e1, field,
              <<"alaninda en fazla eleman olmalidir", fieldName, ToString(a.maxLength.v[1])>>)

\* notEmpty, unique and contains stay unconfigured in this model
ArrayTypeValidate(a, field, value, errs) ==
  LET r == BaseTypeValidate(a, field, value, errs)
      fieldName == GetLabel(a, field)
  IN  IF HasErrors(r) \/ IsNil(value) THEN {r}
      ELSE IF value.t # "slice"
        THEN {AddError(r, field, <<"alani dizi (array) tipinde olmalidir", fieldName>>)}
      ELSE
        LET slice == value.v
            e2 == ArrayLengthChecks(a, field, slice, r)
            e3 == RunCustom(a, field, value, e2)
        IN  IF a.elementSchema = NilType THEN {e3}
            ELSE ArrayElements(a, field, slice, 0, e3)

\* Type.Validate of any Type, nested ones included
NestedValidate(typ, field, value, errs) ==
  CASE typ.kind = "object" -> ObjectTypeValidate(typ, field, value, errs)
    [] typ.kind = "array" -> ArrayTypeValidate(typ, field, value, errs)
    [] OTHER -> {TypeValidate(typ, field, value, errs)}

(***************************************************************************)
(* types.ObjectType.Transform and types.ArrayType.Transform: the set of    *)
(* the outcomes [value, err, input] of all visiting orders of the shape.   *)
(* input is the caller's container after the call: the code writes to      *)
(* transformedData and transformedSlice only.                              *)
(***************************************************************************)
RECURSIVE NestedTransform(_, _)
RECURSIVE ObjectChildren(_, _, _, _, _)
RECURSIVE ArrayItems(_, _, _, _)

\* mutant: the keys the shape does not declare are left out
CopyUndeclaredNone(transformedData, data) == transformedData

\* for k, v := range data { if _, ok := transformedData[k]; !ok { ... } }
CopyUndeclared(transformedData, data) ==
  [k \in DOMAIN transformedData \cup DOMAIN data |->
     IF k \in DOMAIN transformedData THEN transformedData[k] ELSE data[k]]

\* the loop over o.shape in order ord, from position i on: [value, err]
ObjectChildren(o, data, ord, i, transformedData) ==
  IF i > Len(ord) THEN {[value |-> transformedData, err |-> ""]}
  ELSE UNION { IF r.err # ""
                 THEN {[value |-> EmptyMap, err |-> "alan '" \o ord[i] \o "': " \o r.err]}
                 ELSE ObjectChildren(o, data, ord, i + 1,
                                     MapPut(transformedData, ord[i], r.value))
               : r \in NestedTransform(o.shape[ord[i]], MapGet(data, ord[i])) }

\* mutant: the transformed children are written into the map handed in
ObjectTypeTransformInPlace(o, value) ==
  LET b == BaseTypeTransform(o, value)
  IN  IF b.err # "" THEN {[value |-> Nil, err |-> b.err, input |-> value]}
      ELSE IF IsNil(b.value) THEN {[value |-> Nil, err |-> "", input |-> value]}
      ELSE IF b.value.t # "map"
        THEN {[value |-> Nil, err |-> "nesne (object) tipinde olmalidir", input |-> value]}
      ELSE { IF r.err # "" THEN [value |-> Nil, err |-> r.err, input |-> value]
             ELSE [value |-> MapVal(CopyUndeclared(r.value, b.value.v[1])), err |-> "",
                   input |-> MapVal(CopyUndeclared(r.value, b.value.v[1]))]
             : r \in UNION { ObjectChildren(o, b.value.v[1], ord, 1, EmptyMap)
                             : ord \in Orders(DOMAIN o.shape) } }

ObjectTypeTransform(o, value) ==
  LET b == BaseTypeTransform(o, value)
  IN  IF b.err # "" THEN {[value |-> Nil, err |-> b.err, input |-> value]}
      ELSE IF IsNil(b.value) THEN {[value |-> Nil, err |-> "", input |-> value]}
      ELSE IF b.value.t # "map"
        THEN {[value |-> Nil, err |-> "nesne (object) tipinde olmalidir", input |-> value]}
      ELSE { IF r.err # "" THEN [value |-> Nil, err |-> r.err, input |-> value]
             ELSE [value |-> MapVal(CopyUndeclared(r.value, b.value.v[1])), err |-> "",
                   input |-> value]
             : r \in UNION { ObjectChildren(o, b.value.v[1], ord, 1, EmptyMap)
                             : ord \in Orders(DOMAIN o.shape) } }

\* the loop over the elements from the element of index i (0-based) on
ArrayItems(a, slice, i, transformedSlice) ==
  IF i >= Len(slice) THEN {[value |-> transformedSlice, err |-> ""]}
  ELSE UNION { IF r.err # ""
                 THEN {[value |-> <<>>, err |-> "dizi index " \o ToString(i) \o ": " \o r.err]}
                 ELSE ArrayItems(a, slice, i + 1, Append(transformedSlice, r.value))
               : r \in NestedTransform(a.elementSchema, slice[i + 1]) }

ArrayTypeTransform(a, value) ==
  LET b == BaseTypeTransform(a, value)
  IN  IF b.err # "" THEN {[value |-> Nil, err |-> b.err, input |-> value]}
      ELSE IF IsNil(b.value) THEN {[value |-> Nil, err |-> "", input |-> value]}
      ELSE IF b.value.t # "slice"
        THEN {[value |-> Nil, err |-> "dizi (array) tipinde olmalidir", input |-> value]}
      ELSE IF a.elementSchema = NilType
        THEN {[value |-> b.value, err |-> "", input |-> value]}
      ELSE { IF r.err # "" THEN [value |-> Nil, err |-> r.err, input |-> value]
             ELSE [value |-> Slice(r.value), err |-> "", input |-> value]
             : r \in ArrayItems(a, b.value.v, 0, <<>>) }

\* Type.Transform of any Type, nested ones included
NestedTransform(typ, value) ==
  CASE typ.kind = "object" -> ObjectTypeTransform(typ, value)
    [] typ.kind = "array" -> ArrayTypeTransform(typ, value)
    [] OTHER -> {[value |-> TypeTransform(typ, value).value,
                  err |-> TypeTransform(typ, value).err, input |-> value]}

(***************************************************************************)
(* validation.ValidationSchema                                             *)
(*                                                                         *)
(* A schema is [shape, crossValidators, conditionalRules].  A conditional  *)
(* rule is [field, expectedValue, callback], callback being the schema the *)
(* user's factory function returns.  A cross-validator is the name of the  *)
(* user's function.  `range` over a Go map visits the keys in an order the *)
(* language leaves open, so Validate yields the set of results of all      *)
(* visiting orders.                                                        *)
(***************************************************************************)
Make == [shape |-> EmptyMap, crossValidators |-> <<>>, conditionalRules |-> <<>>]

\* mutant: Shape adds the fields to those the schema has
SchemaShapeMerge(vs, m) ==
  [vs EXCEPT !.shape = [k \in DOMAIN vs.shape \cup DOMAIN m |->
                          IF k \in DOMAIN m THEN m[k] ELSE vs.shape[k]]]

\* the builder methods of a schema
SchemaShape(vs, m) == [vs EXCEPT !.shape = m]
SchemaCrossValidate(vs, fn) == [vs EXCEPT !.crossValidators = Append(@, fn)]
SchemaWhen(vs, field, expectedValue, callback) ==
  [vs EXCEPT !.conditionalRules =
     Append(@, [field |-> field, expectedValue |-> expectedValue, callback |-> callback])]

\* a failed type assertion data[k].(string) yields the zero value ""
AsString(x) == IF x.t = "string" THEN x.v ELSE <<>>

\* the cross-validators: the one of TestCrossValidationTiming, and one that
\* fails on a failed type assertion (TestSchema_CrossValidation_DateRange)
RunCross(fn, data) ==
  IF fn = "passwordsMatch"
    THEN IF AsString(MapGet(data, "password")) # AsString(MapGet(data, "passwordConfirm"))
           THEN "Passwords do not match" ELSE ""
  ELSE IF fn = "confirmIsString"
    THEN IF MapGet(data, "passwordConfirm").t # "string"
           THEN "invalid confirmation format" ELSE ""
    ELSE ""

\* mutant: the input's keys outside the shape are copied to transformedData
RECURSIVE TransformPassKeepsInput(_, _, _, _, _)
TransformPassKeepsInput(shape, data, ord, i, acc) ==
  IF i > Len(ord)
    THEN [acc EXCEPT !.transformedData =
            [k \in DOMAIN @ \cup (DOMAIN data \ DOMAIN shape) |->
               IF k \in DOMAIN @ THEN @[k] ELSE data[k]]]
  ELSE LET field == ord[i]
           r == TypeTransform(shape[field], MapGet(data, field))
       IN  TransformPassKeepsInput(shape, data, ord, i + 1,
             IF r.err # ""
               THEN [acc EXCEPT !.errors =
                       AddError(@, field, <<"Donusum hatasi", r.err>>)]
               ELSE [acc EXCEPT !.transformedData = MapPut(@, field, r.value)])

\* 1) the transform pass, visiting the shape in order ord
RECURSIVE TransformPass(_, _, _, _, _)
TransformPass(shape, data, ord, i, acc) ==
  IF i > Len(ord) THEN acc
  ELSE LET field == ord[i]
           r == TypeTransform(shape[field], MapGet(data, field))
       IN  TransformPass(shape, data, ord, i + 1,
             IF r.err # ""
               THEN [acc EXCEPT !.errors =
                       AddError(@, field, <<"Donusum hatasi", r.err>>)]
               ELSE [acc EXCEPT !.transformedData = MapPut(@, field, r.value)])

\* 2) the field-level pass, visiting the shape in order ord
RECURSIVE FieldPass(_, _, _, _, _)
FieldPass(shape, transformedData, ord, i, errs) ==
  IF i > Len(ord) THEN errs
  ELSE FieldPass(shape, transformedData, ord, i + 1,
         TypeValidate(shape[ord[i]], ord[i], MapGet(transformedData, ord[i]), errs))

\* mutant: the merged messages replace the ones recorded under the key
MergeMsgsOverwrite(errs, f, msgs, i) == MapPut(errs, f, msgs)

\* result.AddError(f, msg) for every msg of msgs
RECURSIVE MergeMsgs(_, _, _, _)
MergeMsgs(errs, f, msgs, i) ==
  IF i > Len(msgs) THEN errs
  ELSE MergeMsgs(AddError(errs, f, msgs[i]), f, msgs, i + 1)

\* the merge of a sub-result, visiting its error map in order ord
RECURSIVE MergeErrors(_, _, _, _)
MergeErrors(errs, subErrors, ord, i) ==
  IF i > Len(ord) THEN errs
  ELSE MergeErrors(MergeMsgs(errs, ord[i], subErrors[ord[i]], 1), subErrors, ord, i + 1)

\* 4) the cross-field pass: acc is [errors, crossCalls]
RECURSIVE CrossPass(_, _, _, _)
CrossPass(fns, transformedData, i, acc) ==
  IF i > Len(fns) THEN acc
  ELSE LET err == RunCross(fns[i], transformedData)
       IN  CrossPass(fns, transformedData, i + 1,
             [errors |-> IF err # "" THEN AddError(acc.errors, "_cross_validation", <<err>>)
                                     ELSE acc.errors,
              crossCalls |-> Append(acc.crossCalls, fns[i])])

RECURSIVE SchemaValidate(_, _)
RECURSIVE ConditionalPass(_, _, _, _)

\* 3) the conditional pass: acc is [errors, subErrors], subErrors the error
\* maps returned by the sub-schemas of the rules that fired, in rule order
ConditionalPass(rules, transformedData, i, acc) ==
  IF i > Len(rules) THEN {acc}
  ELSE
    LET rule == rules[i]
        exists == rule.field \in DOMAIN transformedData
    IN  IF exists /\ AnyEq(transformedData[rule.field], rule.expectedValue)
          THEN UNION { UNION { ConditionalPass(rules, transformedData, i + 1,
                                 [errors |-> IF HasErrors(sub.errors)
                                               THEN MergeErrors(acc.errors, sub.errors, ord, 1)
                                               ELSE acc.errors,
                                  subErrors |-> Append(acc.subErrors, sub.errors)])
                               : ord \in Orders(DOMAIN sub.errors) }
                       : sub \in SchemaValidate(rule.callback, transformedData) }
          ELSE ConditionalPass(rules, transformedData, i + 1, acc)

\* mutant: the cross-field pass runs whatever the result holds
FinishNoGate(vs, t, own, cond) ==
  LET cross == CrossPass(vs.crossValidators, t.transformedData, 1,
                         [errors |-> cond.errors, crossCalls |-> <<>>])
  IN  [errors |-> cross.errors,
       validData |-> IF ~HasErrors(cross.errors) THEN t.transformedData ELSE EmptyMap,
       transformedData |-> t.transformedData,
       transformErrors |-> t.errors,
       ownErrors |-> own,
       subErrors |-> cond.subErrors,
       crossCalls |-> cross.crossCalls]

\* mutant: validData is set whatever the result holds
FinishKeepsValidData(vs, t, own, cond) ==
  LET cross == IF ~HasErrors(cond.errors)
                 THEN CrossPass(vs.crossValidators, t.transformedData, 1,
                                [errors |-> cond.errors, crossCalls |-> <<>>])
                 ELSE [errors |-> cond.errors, crossCalls |-> <<>>]
  IN  [errors |-> cross.errors,
       validData |-> t.transformedData,
       transformedData |-> t.transformedData,
       transformErrors |-> t.errors,
       ownErrors |-> own,
       subErrors |-> cond.subErrors,
       crossCalls |-> cross.crossCalls]

\* steps 4 and 5 of Validate, after the passes left own (the errors of the
\* transform and field passes) and cond (the conditional pass's outcome)
Finish(vs, t, own, cond) ==
  LET cross == IF ~HasErrors(cond.errors)
                 THEN CrossPass(vs.crossValidators, t.transformedData, 1,
                                [errors |-> cond.errors, crossCalls |-> <<>>])
                 ELSE [errors |-> cond.errors, crossCalls |-> <<>>]
  IN  [errors |-> cross.errors,
       validData |-> IF ~HasErrors(cross.errors) THEN t.transformedData ELSE EmptyMap,
       transformedData |-> t.transformedData,
       transformErrors |-> t.errors,
       ownErrors |-> own,
       subErrors |-> cond.subErrors,
       crossCalls |-> cross.crossCalls]

SchemaValidate(vs, data) ==
  LET keys == DOMAIN vs.shape
      NewResult == [errors |-> EmptyMap, transformedData |-> EmptyMap]
  IN  UNION { UNION { { Finish(vs, t, own, cond)
                        : cond \in ConditionalPass(vs.conditionalRules, t.transformedData, 1,
                                                   [errors |-> own, subErrors |-> <<>>]) }
                      : own \in { FieldPass(vs.shape, t.transformedData, vo, 1, t.errors)
                                  : vo \in Orders(keys) } }
              : t \in { TransformPass(vs.shape, data, to, 1, NewResult)
                        : to \in Orders(keys) } }

(***************************************************************************)
(* The inputs of the model: field names, values, Types, shapes, callbacks. *)
(***************************************************************************)
FieldNames == {"password", "passwordConfirm"}

InputStrings == {<<>>, <<"a">>, <<" ", "a">>, <<"a", "a">>}
InputValues == {Str(s) : s \in InputStrings} \cup {GoInt(1)}

\* all maps from some of the keys of K to values of V
Maps(K, V) == UNION {[S -> V] : S \in SUBSET K}

\* the records handed to Validate; a key left out reads as nil
Inputs == Maps(FieldNames, InputValues)

ShapeTypes ==
  { Min(Required(String), 2),
    Required(String),
    Default(Trim(String), Str(<<" ", "a">>)),
    Required(Number) }

Shapes == Maps(FieldNames, ShapeTypes)

\* the schemas the factory functions handed to When return
Callbacks ==
  { [Make EXCEPT !.shape = MapPut(EmptyMap, "passwordConfirm", Required(String))],
    [Make EXCEPT !.shape =
       MapPut(EmptyMap, "password", Custom(Min(Required(String), 2), "reject"))] }

ExpectedValues == {Str(<<"a">>)}
CrossFns == {"passwordsMatch"}

(***************************************************************************)
(* State                                                                   *)
(***************************************************************************)
VARIABLES
  shape, crossValidators, conditionalRules,  \* the ValidationSchema
  data,                                      \* the record the caller holds
  called,                                    \* Validate has returned for data
  errors, validData,                         \* the ValidationResult it returned
  run,                                       \* what that call did on the way
  typ, fkey, fvalue, fbefore, fafter, fout, fop, \* a single Type and its last call
  farg,                                      \* the value as it was handed to Transform
  calls,                                     \* the Validate calls in progress
  vcall,                                     \* one Type.Validate call, stepped
  hist,                                      \* the builder calls made so far
  pure                                       \* a rule predicate, its input and verdict

schemaVars == <<shape, crossValidators, conditionalRules>>
callVars == <<data, called, errors, validData, run>>
fieldVars == <<typ, fkey, fvalue, fbefore, fafter, fout, fop, farg>>
stepVars == <<calls>>
auxVars == <<vcall, hist, pure>>
vars == <<schemaVars, callVars, fieldVars, stepVars, auxVars>>

schema == [shape |-> shape, crossValidators |-> crossValidators,
           conditionalRules |-> conditionalRules]

NoRun == [transformedData |-> EmptyMap, transformErrors |-> EmptyMap,
          ownErrors |-> EmptyMap, subErrors |-> <<>>, crossCalls |-> <<>>]
NoOut == [value |-> Nil, err |-> ""]

NoResult ==
  /\ called' = FALSE
  /\ errors' = EmptyMap
  /\ validData' = EmptyMap
  /\ run' = NoRun

\* the callers of Validate and a call that has not started
Callers == {"c1", "c2"}
IdleCall ==
  [pc |-> "idle", data |-> EmptyMap, todo |-> {}, tdone |-> {},
   transformedData |-> EmptyMap, errors |-> EmptyMap, validData |-> EmptyMap,
   received |-> EmptyMap, rule |-> 1, fired |-> <<>>, cross |-> 1,
   crossCalls |-> <<>>, concurrent |-> FALSE]
NoCalls == [c \in Callers |-> IdleCall]

\* what the builder calls of BuildSpec leave behind: the last method called,
\* the argument of the last and of the last but one Shape call, and the lists
\* as they were before the last call
NoHistory ==
  [op |-> "Make", lastShape |-> EmptyMap, prevShape |-> EmptyMap,
   before |-> [crossValidators |-> <<>>, conditionalRules |-> <<>>]]

\* no rule predicate has been given an input
NoInput ==
  [op |-> "input", input |-> <<>>, arg |-> "", version |-> 0, out |-> FALSE, errors |-> <<>>]

\* no Type.Validate call is being stepped
NoValidate ==
  [pc |-> "idle", t |-> NilType, field |-> "", value |-> Nil, errors |-> EmptyMap,
   i |-> 0, log |-> <<>>]

FieldIdle ==
  /\ typ = String /\ fkey = "" /\ fvalue = Nil /\ fbefore = EmptyMap
  /\ fafter = EmptyMap /\ fout = NoOut /\ fop = "new" /\ farg = Nil

Init ==
  /\ shape = Make.shape
  /\ crossValidators = Make.crossValidators
  /\ conditionalRules = Make.conditionalRules
  /\ data = EmptyMap
  /\ called = FALSE /\ errors = EmptyMap /\ validData = EmptyMap /\ run = NoRun
  /\ FieldIdle
  /\ calls = NoCalls
  /\ vcall = NoValidate
  /\ hist = NoHistory
  /\ pure = NoInput

(***************************************************************************)
(* The operations of a schema.  A builder call drops the result of the     *)
(* previous Validate call: the result vars are those of the last call on   *)
(* the schema as it is configured now.                                     *)
(***************************************************************************)
Shape(m) ==
  /\ shape' = m
  /\ UNCHANGED <<crossValidators, conditionalRules, data, fieldVars, stepVars, auxVars>>
  /\ NoResult

CrossValidate(fn) ==
  /\ Len(crossValidators) < MaxCross
  /\ crossValidators' = Append(crossValidators, fn)
  /\ UNCHANGED <<shape, conditionalRules, data, fieldVars, stepVars, auxVars>>
  /\ NoResult

When(field, expectedValue, callback) ==
  /\ Len(conditionalRules) < MaxRules
  /\ conditionalRules' = Append(conditionalRules,
        [field |-> field, expectedValue |-> expectedValue, callback |-> callback])
  /\ UNCHANGED <<shape, crossValidators, data, fieldVars, stepVars, auxVars>>
  /\ NoResult

\* the caller obtains the next record to validate
Receive(d) ==
  /\ data' = d
  /\ UNCHANGED <<schemaVars, fieldVars, stepVars, auxVars>>
  /\ NoResult

Validate ==
  /\ \E r \in SchemaValidate(schema, data) :
       /\ errors' = r.errors
       /\ validData' = r.validData
       /\ run' = [transformedData |-> r.transformedData,
                  transformErrors |-> r.transformErrors,
                  ownErrors |-> r.ownErrors,
                  subErrors |-> r.subErrors,
                  crossCalls |-> r.crossCalls]
  /\ called' = TRUE
  /\ UNCHANGED <<schemaVars, data, fieldVars, stepVars, auxVars>>

Next ==
  \/ \E m \in Shapes : Shape(m)
  \/ \E fn \in CrossFns : CrossValidate(fn)
  \/ \E f \in FieldNames, e \in ExpectedValues, cb \in Callbacks : When(f, e, cb)
  \/ \E d \in Inputs : Receive(d)
  \/ Validate

Spec == Init /\ [][Next]_vars

(***************************************************************************)
(* Claims about Schema.Validate, checked under Spec.                       *)
(***************************************************************************)
\* the messages of key f in an error map, none when f has no entry
MsgsOf(errs, f) == IF f \in DOMAIN errs THEN errs[f] ELSE <<>>
Range(seq) == {seq[i] : i \in 1..Len(seq)}

\* field f of the shape, validated on its own, breaks one of its constraints
Violates(f) ==
  HasErrors(TypeValidate(shape[f], f, MapGet(run.transformedData, f), EmptyMap))

CrossWouldFail ==
  \E i \in 1..Len(crossValidators) : RunCross(crossValidators[i], run.transformedData) # ""

\* rule i fired in the last call
Fired(i) ==
  /\ conditionalRules[i].field \in DOMAIN run.transformedData
  /\ AnyEq(run.transformedData[conditionalRules[i].field], conditionalRules[i].expectedValue)

\* C1: errors of any pass leave validData empty; validData is filled only
\* when the error map is empty.
C1_ValidDataOnlyWithoutErrors ==
  called =>
    /\ HasErrors(errors) => validData = EmptyMap
    /\ validData # EmptyMap => ~HasErrors(errors)
    /\ ( \/ HasErrors(run.transformErrors)
         \/ HasErrors(run.ownErrors)
         \/ \E i \in 1..Len(run.subErrors) : HasErrors(run.subErrors[i])
         \/ "_cross_validation" \in DOMAIN errors ) => validData = EmptyMap

C1_Witness ==
  /\ called
  /\ HasErrors(errors)
  /\ DOMAIN run.transformedData = DOMAIN shape
  /\ DOMAIN shape = FieldNames
  /\ validData = EmptyMap

\* C2: every field of the shape whose transformed value violates one of its
\* constraints has an entry in the error map, whatever the other fields did.
C2_EveryViolatingFieldReported ==
  called => \A f \in DOMAIN shape : Violates(f) => f \in DOMAIN errors

\* C3: Validate is deterministic: every run of Validate on this schema and
\* this record returns the error map and validData this call returned.
C3_Deterministic ==
  called => \A r \in SchemaValidate(schema, data) :
              r.errors = errors /\ r.validData = validData

C5_CrossRunsDespiteFieldErrors ==
  ( /\ called
    /\ DOMAIN shape = FieldNames
    /\ shape["password"] = Min(Required(String), 2)
    /\ shape["passwordConfirm"] = Required(String)
    /\ conditionalRules = <<>>
    /\ "password" \in DOMAIN data /\ data["password"].t = "string"
    /\ Len(data["password"].v) \in 1..(shape["password"].minLength.v[1] - 1)
    /\ "passwordConfirm" \in DOMAIN data /\ data["passwordConfirm"].t = "string"
    /\ Len(data["passwordConfirm"].v) > 0
    /\ CrossWouldFail ) =>
    /\ "password" \in DOMAIN errors
    /\ "_cross_validation" \in DOMAIN errors

\* C6: errors merged from a conditional sub-schema alone do not gate the
\* cross-field pass: every registered cross-validator is still invoked.
C6_ConditionalErrorsDoNotGate ==
  ( /\ called
    /\ ~HasErrors(run.ownErrors)
    /\ \E i \in 1..Len(run.subErrors) : HasErrors(run.subErrors[i]) ) =>
    run.crossCalls = crossValidators

\* the messages the sub-results of the fired rules hold for key f, in rule order
RECURSIVE SubMsgs(_, _, _)
SubMsgs(subs, f, i) ==
  IF i > Len(subs) THEN <<>> ELSE MsgsOf(subs[i], f) \o SubMsgs(subs, f, i + 1)

\* C7: the conditional merge appends: under every field key the result
\* holds the messages of the parent's own passes first, then the messages of
\* each fired sub-schema's result in their order.
C7_ConditionalMergeAppends ==
  called =>
    \A f \in FieldNames \cup DOMAIN errors :
      f # "_cross_validation" =>
        MsgsOf(errors, f) = MsgsOf(run.ownErrors, f) \o SubMsgs(run.subErrors, f, 1)

C7_Witness ==
  /\ called
  /\ \E f \in DOMAIN run.ownErrors :
       \E i \in 1..Len(run.subErrors) :
         /\ f \in DOMAIN run.subErrors[i]
         /\ Len(run.subErrors[i][f]) >= 2
         /\ Len(errors[f]) = Len(run.ownErrors[f]) + Len(run.subErrors[i][f])

\* C8: when a rule fires and the input record satisfies every field of the
\* rule's sub-schema (also fields the parent shape does not declare), and
\* nothing else fails, Validate reports no errors.
C8_SubSchemaSeesInputRecord ==
  ( /\ called
    /\ ~HasErrors(run.ownErrors)
    /\ ~CrossWouldFail
    /\ \E i \in 1..Len(conditionalRules) : Fired(i)
    /\ \A i \in 1..Len(conditionalRules) :
         Fired(i) => \A r \in SchemaValidate(conditionalRules[i].callback, data) :
                       ~HasErrors(r.errors) ) =>
    ~HasErrors(errors)

(***************************************************************************)
(* A single Type: its builder methods, Transform and Validate (FieldSpec). *)
(***************************************************************************)
Kinds == {"string", "number", "boolean"}
NestedKinds == {"object", "array"}
\* the values handed to an Object or Array field
NestedValues ==
  { MapVal([name |-> Str(<<"a">>)]),
    Slice(<<Str(<<"a", "a">>), Str(<<"a">>)>>),
    Slice(<<MapVal([name |-> Str(<<"a">>)]), MapVal(EmptyMap)>>) }
\* strings for the email check
FormatStrings ==
  { <<"a", ".", ".", "a">>, <<"a", "@", "a", ".", "a", "a">> }
FieldValues ==
  {Nil, Bool(TRUE)} \cup InputValues \cup NestedValues \cup {Str(s) : s \in FormatStrings}
DefaultsOf(kind) ==
  CASE kind = "string" -> {Str(<<" ", "a">>), Str(<<"a", "a">>)}
    [] kind = "number" -> {GoInt(1)}
    [] kind = "boolean" -> {Bool(TRUE)}
    [] OTHER -> {}
\* the shapes handed to ObjectType.Shape and the Types handed to
\* ArrayType.Elements
ChildShapes ==
  { [name |-> Min(Required(String), 2), age |-> Required(Number)],
    [tags |-> Elements(Array, Min(String, 2))] }
ElementTypes ==
  { Min(String, 2),
    ObjectShape(Object, [name |-> Min(Required(String), 2)]) }

\* the results a Type.Validate call can be handed: at most MaxPending
\* messages recorded by earlier calls
RECURSIVE PendingResults(_)
PendingResults(n) ==
  IF n = 0 THEN {EmptyMap}
  ELSE LET prev == PendingResults(n - 1)
       IN  prev \cup {AddError(e, f, <<"earlier">>) : e \in prev, f \in FieldNames}

NoCall ==
  /\ fkey' = "" /\ fvalue' = Nil /\ fbefore' = EmptyMap /\ fafter' = EmptyMap
  /\ fout' = NoOut /\ fop' = "new" /\ farg' = Nil

NewField(kind) ==
  /\ typ' = NewType(kind)
  /\ NoCall
  /\ UNCHANGED <<schemaVars, callVars, stepVars, auxVars>>

FieldRequired ==
  /\ ~typ.isRequired
  /\ typ' = Required(typ)
  /\ NoCall
  /\ UNCHANGED <<schemaVars, callVars, stepVars, auxVars>>

FieldLabel(label) ==
  /\ typ' = SetLabel(typ, label)
  /\ NoCall
  /\ UNCHANGED <<schemaVars, callVars, stepVars, auxVars>>

FieldDefault(value) ==
  /\ typ' = Default(typ, value)
  /\ NoCall
  /\ UNCHANGED <<schemaVars, callVars, stepVars, auxVars>>

FieldTrim ==
  /\ typ.kind = "string"
  /\ Len(typ.transformations) < MaxTransforms
  /\ typ' = Trim(typ)
  /\ NoCall
  /\ UNCHANGED <<schemaVars, callVars, stepVars, auxVars>>

FieldEmail ==
  /\ typ.kind = "string"
  /\ typ' = Email(typ)
  /\ NoCall
  /\ UNCHANGED <<schemaVars, callVars, stepVars, auxVars>>

FieldShape(m) ==
  /\ typ.kind = "object"
  /\ typ' = ObjectShape(typ, m)
  /\ NoCall
  /\ UNCHANGED <<schemaVars, callVars, stepVars, auxVars>>

FieldElements(elementSchema) ==
  /\ typ.kind = "array"
  /\ typ' = Elements(typ, elementSchema)
  /\ NoCall
  /\ UNCHANGED <<schemaVars, callVars, stepVars, auxVars>>

FieldMin(n) ==
  /\ typ.kind \in {"string", "number"}
  /\ typ' = Min(typ, n)
  /\ NoCall
  /\ UNCHANGED <<schemaVars, callVars, stepVars, auxVars>>

FieldCustom(fn) ==
  /\ Len(typ.customValidation.syncValidators) < MaxCustom
  /\ typ' = Custom(typ, fn)
  /\ NoCall
  /\ UNCHANGED <<schemaVars, callVars, stepVars, auxVars>>

\* Transform of a String, Number or Boolean (ObjectType and ArrayType
\* override Transform)
FieldTransform(value) ==
  /\ typ.kind \in Kinds
  /\ fout' = TypeTransform(typ, value)
  /\ fvalue' = value
  /\ fop' = "Transform"
  /\ farg' = value
  /\ fkey' = "" /\ fbefore' = EmptyMap /\ fafter' = EmptyMap
  /\ UNCHANGED <<typ, schemaVars, callVars, stepVars, auxVars>>

FieldValidate(field, value, result) ==
  /\ \E after \in NestedValidate(typ, field, value, result) : fafter' = after
  /\ fbefore' = result
  /\ fkey' = field
  /\ fvalue' = value
  /\ fop' = "Validate"
  /\ farg' = Nil
  /\ fout' = NoOut
  /\ UNCHANGED <<typ, schemaVars, callVars, stepVars, auxVars>>

FieldNext ==
  \/ \E kind \in Kinds \cup NestedKinds : NewField(kind)
  \/ \E m \in ChildShapes : FieldShape(m)
  \/ \E elementSchema \in ElementTypes : FieldElements(elementSchema)
  \/ FieldRequired
  \/ FieldLabel("Sifre")
  \/ \E value \in DefaultsOf(typ.kind) : FieldDefault(value)
  \/ FieldTrim
  \/ FieldEmail
  \/ FieldMin(2)
  \/ FieldCustom("reject")
  \/ \E value \in FieldValues : FieldTransform(value)
  \/ \E value \in FieldValues, result \in PendingResults(MaxPending) :
       FieldValidate("password", value, result)

FieldSpec == Init /\ [][FieldNext]_vars

(***************************************************************************)
(* Claims about a single Type, checked under FieldSpec.                    *)
(***************************************************************************)
Missing(value) == IsNil(value) \/ AnyEq(value, Str(<<>>))

\* C9: Validate of a required Type, given nil or "", appends the required
\* error under the field's key and nothing else: no type error, no
\* constraint error, no custom rule's error.
C9_RequiredGating ==
  (fop = "Validate" /\ typ.isRequired /\ Missing(fvalue)) =>
    /\ DOMAIN fafter = DOMAIN fbefore \cup {fkey}
    /\ \A f \in DOMAIN fbefore : f # fkey => fafter[f] = fbefore[f]
    /\ fafter[fkey] =
         MsgsOf(fbefore, fkey) \o << <<"validation.required", GetLabel(typ, fkey)>> >>

C9_Witness ==
  /\ fop = "Validate" /\ typ.isRequired /\ AnyEq(fvalue, Str(<<>>))
  /\ typ.kind = "string"
  /\ ~IsNil(typ.minLength)
  /\ HasValidators(typ.customValidation)
  /\ fkey \in DOMAIN fbefore
  /\ Len(fafter[fkey]) = Len(fbefore[fkey]) + 1

\* C10 as stated, for a default D that itself satisfies the field's
\* constraints: a non-required field given nil gets no error and has D as its
\* transformed value.
C10_DefaultIsTransformedValue ==
  ( /\ fop = "Transform" /\ ~typ.isRequired /\ IsNil(fvalue)
    /\ ~IsNil(typ.defaultValue)
    /\ ~HasErrors(TypeValidate(typ, "password", typ.defaultValue, EmptyMap)) ) =>
    /\ fout.err = ""
    /\ AnyEq(fout.value, typ.defaultValue)
    /\ ~HasErrors(TypeValidate(typ, "password", fout.value, EmptyMap))

\* C10 as amended: the default replaces exactly a nil value (never a present
\* one, "" included) before the first step, so the chain runs on the
\* default: a non-required field given nil has the chain's result on D as
\* its transformed value (D itself when it has no transform step) and gets no
\* required error.
C10_DefaultSubstitution ==
  fop = "Transform" =>
    /\ ~IsNil(fvalue) => fout = RunChain(typ.transformations, 1, fvalue)
    /\ (IsNil(fvalue) /\ IsNil(typ.defaultValue)) => fout = NoOut
    /\ (IsNil(fvalue) /\ ~IsNil(typ.defaultValue)) =>
         /\ fout = RunChain(typ.transformations, 1, typ.defaultValue)
         /\ typ.transformations = <<>> =>
              fout = [value |-> typ.defaultValue, err |-> ""]
         /\ (~typ.isRequired /\ fout.err = "") =>
              \A m \in Range(MsgsOf(TypeValidate(typ, "password", fout.value, EmptyMap),
                                    "password")) : m[1] # "validation.required"

C10_Witness ==
  /\ fop = "Transform" /\ IsNil(fvalue) /\ ~typ.isRequired
  /\ typ.defaultValue = Str(<<" ", "a">>)
  /\ typ.transformations = <<"Trim">>
  /\ fout = [value |-> Str(<<"a">>), err |-> ""]

(***************************************************************************)
(* ValidationSchema.Validate, statement by statement (StepSpec): a call    *)
(* record holds the locals of one Validate call.  todo is what the current *)
(* `range vs.shape` has not visited yet, rule and cross are the loop       *)
(* indexes; tdone, received, fired and crossCalls record what the call has *)
(* done: the fields transformed, the value each Type.Validate was handed,  *)
(* the rules whose factory was invoked, the cross-validators invoked with  *)
(* their argument.                                                         *)
(***************************************************************************)
\* mutant: the result is one object shared by the calls, not a fresh one
NewCallShared(vs, d) ==
  LET started == {c \in Callers : calls[c].pc # "idle"}
  IN  [IdleCall EXCEPT !.pc = "transform", !.data = d, !.todo = DOMAIN vs.shape,
                       !.errors = IF started = {} THEN EmptyMap
                                  ELSE calls[CHOOSE c \in started : TRUE].errors]

\* result := core.NewResult(); transformedData := make(map[string]any)
NewCall(vs, d) ==
  [IdleCall EXCEPT !.pc = "transform", !.data = d, !.todo = DOMAIN vs.shape]

\* mutant: no `continue` after a failed transform, the returned value is stored
TransformStepNoContinue(call, vs, field) ==
  LET r == TypeTransform(vs.shape[field], MapGet(call.data, field))
  IN  [call EXCEPT
         !.todo = @ \ {field},
         !.tdone = @ \cup {field},
         !.errors = IF r.err # "" THEN AddError(@, field, <<"Donusum hatasi", r.err>>)
                                  ELSE @,
         !.transformedData = MapPut(@, field, r.value)]

\* the body of the transform loop for one field
TransformStep(call, vs, field) ==
  LET r == TypeTransform(vs.shape[field], MapGet(call.data, field))
  IN  [call EXCEPT
         !.todo = @ \ {field},
         !.tdone = @ \cup {field},
         !.errors = IF r.err # "" THEN AddError(@, field, <<"Donusum hatasi", r.err>>)
                                  ELSE @,
         !.transformedData = IF r.err # "" THEN @ ELSE MapPut(@, field, r.value)]

\* mutant: Type.Validate is handed the raw input value
ValidateStepRaw(call, vs, field) ==
  LET value == MapGet(call.data, field)
  IN  [call EXCEPT
         !.todo = @ \ {field},
         !.received = MapPut(@, field, value),
         !.errors = TypeValidate(vs.shape[field], field, value, @)]

\* the body of the field-level loop for one field
ValidateStep(call, vs, field) ==
  LET value == MapGet(call.transformedData, field)
  IN  [call EXCEPT
         !.todo = @ \ {field},
         !.received = MapPut(@, field, value),
         !.errors = TypeValidate(vs.shape[field], field, value, @)]

\* mutant: the rule is matched against the raw input, declared or not
ConditionalStepRaw(call, vs) ==
  LET rule == vs.conditionalRules[call.rule]
      exists == rule.field \in DOMAIN call.data
  IN  IF exists /\ AnyEq(call.data[rule.field], rule.expectedValue)
        THEN UNION { { [call EXCEPT
                          !.rule = @ + 1,
                          !.fired = Append(@, call.rule),
                          !.errors = IF HasErrors(sub.errors)
                                       THEN MergeErrors(@, sub.errors, ord, 1)
                                       ELSE @]
                       : ord \in Orders(DOMAIN sub.errors) }
                     : sub \in SchemaValidate(rule.callback, call.transformedData) }
        ELSE { [call EXCEPT !.rule = @ + 1] }

\* the body of the conditional loop for rule call.rule: the calls it can
\* leave, one for every run of the sub-schema and every order of the merge
ConditionalStep(call, vs) ==
  LET rule == vs.conditionalRules[call.rule]
      exists == rule.field \in DOMAIN call.transformedData
  IN  IF exists /\ AnyEq(call.transformedData[rule.field], rule.expectedValue)
        THEN UNION { { [call EXCEPT
                          !.rule = @ + 1,
                          !.fired = Append(@, call.rule),
                          !.errors = IF HasErrors(sub.errors)
                                       THEN MergeErrors(@, sub.errors, ord, 1)
                                       ELSE @]
                       : ord \in Orders(DOMAIN sub.errors) }
                     : sub \in SchemaValidate(rule.callback, call.transformedData) }
        ELSE { [call EXCEPT !.rule = @ + 1] }

\* mutant: the loop over the cross-validators stops at the first failure
CrossStepBreak(call, vs) ==
  LET fn == vs.crossValidators[call.cross]
      err == RunCross(fn, call.transformedData)
  IN  [call EXCEPT
         !.cross = IF err # "" THEN Len(vs.crossValidators) + 1 ELSE @ + 1,
         !.crossCalls = Append(@, [fn |-> fn, data |-> call.transformedData]),
         !.errors = IF err # "" THEN AddError(@, "_cross_validation", <<err>>) ELSE @]

\* the body of the cross-validator loop for validator call.cross
CrossStep(call, vs) ==
  LET fn == vs.crossValidators[call.cross]
      err == RunCross(fn, call.transformedData)
  IN  [call EXCEPT
         !.cross = @ + 1,
         !.crossCalls = Append(@, [fn |-> fn, data |-> call.transformedData]),
         !.errors = IF err # "" THEN AddError(@, "_cross_validation", <<err>>) ELSE @]

\* if !result.HasErrors() { result.SetValidData(transformedData) }; return
FinalizeStep(call) ==
  [call EXCEPT !.pc = "done",
               !.validData = IF ~HasErrors(call.errors) THEN call.transformedData
                                                        ELSE @]

\* no Validate call is under way
Quiet == \A c \in Callers : calls[c].pc \in {"idle", "done"}

OtherVars == <<callVars, fieldVars, auxVars>>

\* the builder methods, called while no Validate call is under way; the
\* results of the earlier calls are dropped
StepShape(m) ==
  /\ Quiet
  /\ shape' = m
  /\ calls' = NoCalls
  /\ UNCHANGED <<crossValidators, conditionalRules, OtherVars>>

StepCrossValidate(fn) ==
  /\ Quiet
  /\ Len(crossValidators) < MaxStepCross
  /\ crossValidators' = Append(crossValidators, fn)
  /\ calls' = NoCalls
  /\ UNCHANGED <<shape, conditionalRules, OtherVars>>

StepWhen(field, expectedValue, callback) ==
  /\ Quiet
  /\ Len(conditionalRules) < MaxStepRules
  /\ conditionalRules' = Append(conditionalRules,
        [field |-> field, expectedValue |-> expectedValue, callback |-> callback])
  /\ calls' = NoCalls
  /\ UNCHANGED <<shape, crossValidators, OtherVars>>

\* the call of another caller is under way
Overlaps(c) == \E o \in Callers \ {c} : calls[o].pc \notin {"idle", "done"}

\* caller c calls Validate(d); concurrent records that the call started
\* while another was under way
Begin(c, d) ==
  /\ calls[c].pc \in {"idle", "done"}
  /\ calls' = [calls EXCEPT ![c] = [NewCall(schema, d) EXCEPT !.concurrent = Overlaps(c)]]
  /\ UNCHANGED <<schemaVars, OtherVars>>

TransformField(c, f) ==
  /\ calls[c].pc = "transform"
  /\ f \in calls[c].todo
  /\ calls' = [calls EXCEPT ![c] = TransformStep(@, schema, f)]
  /\ UNCHANGED <<schemaVars, OtherVars>>

EndTransform(c) ==
  /\ calls[c].pc = "transform"
  /\ calls[c].todo = {}
  /\ calls' = [calls EXCEPT ![c].pc = "validate", ![c].todo = DOMAIN shape]
  /\ UNCHANGED <<schemaVars, OtherVars>>

ValidateField(c, f) ==
  /\ calls[c].pc = "validate"
  /\ f \in calls[c].todo
  /\ calls' = [calls EXCEPT ![c] = ValidateStep(@, schema, f)]
  /\ UNCHANGED <<schemaVars, OtherVars>>

EndValidate(c) ==
  /\ calls[c].pc = "validate"
  /\ calls[c].todo = {}
  /\ calls' = [calls EXCEPT ![c].pc = "conditional"]
  /\ UNCHANGED <<schemaVars, OtherVars>>

ConditionalRule(c) ==
  /\ calls[c].pc = "conditional"
  /\ calls[c].rule <= Len(conditionalRules)
  /\ \E next \in ConditionalStep(calls[c], schema) :
       calls' = [calls EXCEPT ![c] = next]
  /\ UNCHANGED <<schemaVars, OtherVars>>

\* the guard of the cross-field pass is evaluated once, before its loop
EndConditional(c) ==
  /\ calls[c].pc = "conditional"
  /\ calls[c].rule > Len(conditionalRules)
  /\ calls' = [calls EXCEPT ![c].pc =
                 IF HasErrors(calls[c].errors) THEN "finalize" ELSE "cross"]
  /\ UNCHANGED <<schemaVars, OtherVars>>

CrossCall(c) ==
  /\ calls[c].pc = "cross"
  /\ calls[c].cross <= Len(crossValidators)
  /\ calls' = [calls EXCEPT ![c] = CrossStep(@, schema)]
  /\ UNCHANGED <<schemaVars, OtherVars>>

EndCross(c) ==
  /\ calls[c].pc = "cross"
  /\ calls[c].cross > Len(crossValidators)
  /\ calls' = [calls EXCEPT ![c].pc = "finalize"]
  /\ UNCHANGED <<schemaVars, OtherVars>>

Finalize(c) ==
  /\ calls[c].pc = "finalize"
  /\ calls' = [calls EXCEPT ![c] = FinalizeStep(@)]
  /\ UNCHANGED <<schemaVars, OtherVars>>

\* one statement of the Validate call of caller c
Step(c) ==
  \/ \E f \in FieldNames : TransformField(c, f)
  \/ EndTransform(c)
  \/ \E f \in FieldNames : ValidateField(c, f)
  \/ EndValidate(c)
  \/ ConditionalRule(c)
  \/ EndConditional(c)
  \/ CrossCall(c)
  \/ EndCross(c)
  \/ Finalize(c)

\* the schemas and records of StepSpec
StepShapes ==
  { [password |-> Required(Trim(String)), passwordConfirm |-> StripTags(Trim(String))],
    [password |-> Default(Number, GoInt(1))],
    [password |-> Min(Required(String), 2), passwordConfirm |-> Required(Trim(String))] }
StepValues == {Str(<<" ">>), Str(<<"a">>), GoInt(1)}
StepInputs == Maps(FieldNames, StepValues)
StepCrossFns == {"passwordsMatch", "confirmIsString"}
StepExpected == {Str(<<"a">>), GoInt(1)}
StepCallbacks == { [Make EXCEPT !.shape = [passwordConfirm |-> Required(String)]] }

StepNext ==
  \/ \E m \in StepShapes : StepShape(m)
  \/ \E fn \in StepCrossFns : StepCrossValidate(fn)
  \/ \E f \in FieldNames, e \in StepExpected, cb \in StepCallbacks : StepWhen(f, e, cb)
  \/ \E d \in StepInputs : Begin("c1", d)
  \/ Step("c1")

StepSpec == Init /\ [][StepNext]_vars

(***************************************************************************)
(* Claims about the passes of Validate, checked under StepSpec.            *)
(***************************************************************************)
\* what Transform of field f's Type returns for the record of caller c
TransformOf(c, f) == TypeTransform(shape[f], MapGet(calls[c].data, f))

WhitespaceOnly(x) == x.t = "string" /\ x.v # <<>> /\ TrimSpace(x.v) = <<>>

\* C11: phase ordering: a Type.Validate call happens only after the Transform
\* of every field of the shape, and is handed the field's transformed value
\* (nil when its transform failed), never the raw input; a Required Trim
\* string field given white space only is reported as missing, and validData
\* holds the transformed values.
C11_TransformBeforeValidate ==
  \A c \in Callers :
    LET call == calls[c]
    IN  /\ (call.received # EmptyMap \/ call.pc \in {"validate", "conditional", "cross"})
             => call.tdone = DOMAIN shape
        /\ \A f \in DOMAIN call.received :
             call.received[f] = IF TransformOf(c, f).err = "" THEN TransformOf(c, f).value
                                                              ELSE Nil
        /\ call.pc = "done" =>
             /\ \A f \in DOMAIN shape :
                  ( /\ shape[f].isRequired
                    /\ shape[f].kind = "string"
                    /\ shape[f].transformations = <<"Trim">>
                    /\ WhitespaceOnly(MapGet(call.data, f)) ) =>
                    <<"validation.required", f>> \in Range(MsgsOf(call.errors, f))
             /\ ~HasErrors(call.errors) =>
                  call.validData = [f \in DOMAIN shape |-> TransformOf(c, f).value]

C11_Witness ==
  /\ calls["c1"].pc = "done"
  /\ DOMAIN shape = FieldNames
  /\ shape["password"] = Required(Trim(String))
  /\ MapGet(calls["c1"].data, "password") = Str(<<" ">>)
  /\ calls["c1"].received["password"] = Str(<<>>)
  /\ <<"validation.required", "password">> \in Range(MsgsOf(calls["c1"].errors, "password"))

\* the value the transform chain of field f starts from
ChainInput(c, f) ==
  LET value == MapGet(calls[c].data, f)
  IN  IF IsNil(value) /\ ~IsNil(shape[f].defaultValue) THEN shape[f].defaultValue
                                                       ELSE value

\* C12: a failing transform step ends the field's chain with that step's
\* error; the failure is recorded under the field's key, the key stays out of
\* the transformed map (and so out of validData and of every cross-validator's
\* argument), and every other field is still transformed.
C12_TransformFailure ==
  \A c \in Callers :
    LET call == calls[c]
    IN  /\ \A f \in call.tdone :
             LET r == TransformOf(c, f)
                 fns == shape[f].transformations
                 first == ApplyTransform(fns[1], ChainInput(c, f))
             IN  /\ (fns # <<>> /\ ~IsNil(ChainInput(c, f)) /\ first.err # "") =>
                      r = [value |-> Nil, err |-> first.err]
                 /\ r.err # "" =>
                      /\ f \notin DOMAIN call.transformedData
                      /\ f \in DOMAIN call.errors
                      /\ call.errors[f][1] = <<"Donusum hatasi", r.err>>
                      /\ f \notin DOMAIN call.validData
                      /\ \A i \in 1..Len(call.crossCalls) :
                           f \notin DOMAIN call.crossCalls[i].data
                 /\ r.err = "" =>
                      /\ f \in DOMAIN call.transformedData
                      /\ call.transformedData[f] = r.value
        /\ call.pc \in {"validate", "conditional", "cross", "finalize", "done"} =>
             DOMAIN call.transformedData =
               {f \in DOMAIN shape : TransformOf(c, f).err = ""}

C12_Witness ==
  /\ calls["c1"].pc = "done"
  /\ DOMAIN shape = FieldNames
  /\ shape["passwordConfirm"] = StripTags(Trim(String))
  /\ MapGet(calls["c1"].data, "passwordConfirm") = GoInt(1)
  /\ calls["c1"].errors["passwordConfirm"][1] =
       <<"Donusum hatasi", "Trim sadece string degerler icin uygulanabilir">>
  /\ DOMAIN calls["c1"].transformedData = {"password"}

(***************************************************************************)
(* Claims about nested Types, checked under FieldSpec.                     *)
(***************************************************************************)
\* the messages a call appended: after minus before, key by key
Added(before, after) ==
  [k \in {j \in DOMAIN after : MsgsOf(before, j) # after[j]} |->
     SubSeq(after[k], Len(MsgsOf(before, k)) + 1, Len(after[k]))]

Restrict(m, K) == [k \in DOMAIN m \cap K |-> m[k]]

\* the keys of a Type validated under key field and of all that is nested
\* in it: "p.c" for child c of an object, "p[i]" for element i of an array
RECURSIVE Paths(_, _, _)
Paths(t, field, value) ==
  {field} \cup
    IF t.kind = "object" /\ value.t = "map"
      THEN UNION { Paths(t.shape[c], field \o "." \o c, MapGet(value.v[1], c))
                   : c \in DOMAIN t.shape }
    ELSE IF t.kind = "array" /\ value.t = "slice" /\ t.elementSchema # NilType
      THEN UNION { Paths(t.elementSchema, field \o "[" \o ToString(i - 1) \o "]",
                         value.v[i])
                   : i \in 1..Len(value.v) }
    ELSE {}

\* C13: the errors of child c of an object validated under key p are recorded
\* under exactly "p.c", those of element i of an array under exactly "p[i]",
\* the two compose for deeper nesting, and all land in the one error map.
C13_NestedErrorKeys ==
  fop = "Validate" =>
    LET added == Added(fbefore, fafter)
    IN  /\ DOMAIN added \subseteq Paths(typ, fkey, fvalue)
        /\ \A k \in DOMAIN fbefore : SubSeq(fafter[k], 1, Len(fbefore[k])) = fbefore[k]
        /\ (typ.kind = "object" /\ fvalue.t = "map") =>
             \A c \in DOMAIN typ.shape :
               LET path == fkey \o "." \o c
                   sub == MapGet(fvalue.v[1], c)
                   got == Restrict(added, Paths(typ.shape[c], path, sub))
               IN  got = EmptyMap \/ got \in NestedValidate(typ.shape[c], path, sub, EmptyMap)
        /\ (typ.kind = "array" /\ fvalue.t = "slice" /\ typ.elementSchema # NilType) =>
             \A i \in 1..Len(fvalue.v) :
               LET path == fkey \o "[" \o ToString(i - 1) \o "]"
                   got == Restrict(added, Paths(typ.elementSchema, path, fvalue.v[i]))
               IN  got = EmptyMap
                     \/ got \in NestedValidate(typ.elementSchema, path, fvalue.v[i], EmptyMap)

C13_Witness ==
  /\ fop = "Validate" /\ fkey = "password" /\ fbefore = EmptyMap
  /\ typ.kind = "array"
  /\ typ.elementSchema = ObjectShape(Object, [name |-> Min(Required(String), 2)])
  /\ fvalue = Slice(<<MapVal([name |-> Str(<<"a">>)]), MapVal(EmptyMap)>>)
  /\ DOMAIN fafter = {"password[0].name"}
  /\ fafter["password[0].name"] = << <<"validation.min_length", "password[0].name", "2">> >>

(***************************************************************************)
(* Claims about the checks of one String field, checked under FieldSpec.   *)
(***************************************************************************)
\* the value reaches the constraint checks of a String: present, a string,
\* and not stopped by the required check
PastTypeCheck ==
  /\ fop = "Validate" /\ typ.kind = "string" /\ fvalue.t = "string"
  /\ ~(typ.isRequired /\ fvalue.v = <<>>)

\* C14: collect-all within one field.  Once a present value has passed the
\* type check of a String validated into a result with no earlier errors,
\* every violated constraint (length, email) has its error under the
\* field's key and every failing custom callback has its message there: no
\* failing constraint stops the later checks of the field.
C14_CollectAll ==
  (PastTypeCheck /\ fbefore = EmptyMap) =>
    LET msgs == Range(MsgsOf(fafter, fkey))
        fieldName == GetLabel(typ, fkey)
        cv == typ.customValidation
    IN  /\ (~IsNil(typ.minLength) /\ Len(fvalue.v) < typ.minLength.v[1]) =>
             Get("validation.min_length", <<fieldName, ToString(typ.minLength.v[1])>>) \in msgs
        /\ (typ.emailRegex /\ ~MatchEmail(fvalue.v)) =>
             Get("validation.email", <<fieldName>>) \in msgs
        /\ \A i \in 1..Len(cv.syncValidators) :
             RunSync(cv.syncValidators[i], fvalue) # "" =>
               <<RunSync(cv.syncValidators[i], fvalue)>> \in msgs

(***************************************************************************)
(* Concurrent Validate calls on one schema (ConcSpec): the statements of   *)
(* the calls of two callers interleave freely; the builder methods run     *)
(* only while no call is under way.                                        *)
(***************************************************************************)
ConcShapes ==
  { [password |-> Required(Trim(String)), passwordConfirm |-> Trim(String)],
    [password |-> Min(Required(String), 2), passwordConfirm |-> Required(Trim(String))] }
ConcInputs ==
  { EmptyMap,
    [password |-> Str(<<"a">>)],
    [password |-> Str(<<"a">>), passwordConfirm |-> Str(<<" ", "a">>)],
    [password |-> Str(<<"a", "a">>), passwordConfirm |-> GoInt(1)] }

ConcNext ==
  \/ \E m \in ConcShapes : StepShape(m)
  \/ StepCrossValidate("passwordsMatch")
  \/ \E cb \in StepCallbacks : StepWhen("password", Str(<<"a">>), cb)
  \/ \E c \in Callers, d \in ConcInputs : Begin(c, d)
  \/ \E c \in Callers : Step(c)

ConcSpec == Init /\ [][ConcNext]_vars

\* what Validate(d) on the schema returns when it runs alone
Alone(d) ==
  { [errors |-> r.errors, validData |-> r.validData] : r \in SchemaValidate(schema, d) }

\* C15: concurrent Validate calls on one schema do not interfere: whatever
\* the interleaving of their statements, a call that has returned holds a
\* result that Validate returns for its input when it runs alone.
C15_NoInterference ==
  \A c \in Callers :
    calls[c].pc = "done" =>
      [errors |-> calls[c].errors, validData |-> calls[c].validData] \in Alone(calls[c].data)

\* c2 was called with another input while the call of c1 was under way;
\* c1 returned valid data and c2 returned errors
C15_Witness ==
  /\ calls["c1"].pc = "done" /\ calls["c2"].pc = "done"
  /\ calls["c2"].concurrent
  /\ calls["c1"].data # calls["c2"].data
  /\ ~HasErrors(calls["c1"].errors) /\ calls["c1"].validData # EmptyMap
  /\ HasErrors(calls["c2"].errors)
  /\ Len(conditionalRules) > 0 /\ Len(crossValidators) > 0

(***************************************************************************)
(* Claims about the type check of one field, checked under FieldSpec.      *)
(***************************************************************************)
\* the value is present and is not stopped by the required check
Present == ~IsNil(fvalue) /\ ~(typ.isRequired /\ Missing(fvalue))

\* C16: Number strictness.  Validate of a Number, given a present value,
\* appends no numeric type error when the value's runtime type is one of
\* int, int8, int16, int32, int64, float32, float64, and for a string or a
\* bool appends exactly one error, the numeric type error under the field's
\* key: nothing is coerced and no range check adds an error.
C16_NumberStrictness ==
  (fop = "Validate" /\ typ.kind = "number" /\ Present) =>
    LET numeric == Get("validation.numeric", <<GetLabel(typ, fkey)>>)
    IN  /\ fvalue.t \in NumericTypes => numeric \notin Range(MsgsOf(Added(fbefore, fafter), fkey))
        /\ fvalue.t \in {"string", "bool"} =>
             Added(fbefore, fafter) = MapPut(EmptyMap, fkey, <<numeric>>)

\* the same on a result that holds no error of another field (holds)
C16_OnFreshResult == fbefore = EmptyMap => C16_NumberStrictness

(***************************************************************************)
(* Claims about the cross-field and conditional passes, checked under      *)
(* StepSpec.                                                               *)
(***************************************************************************)
\* the messages of the failing ones of the first n cross-validators, applied
\* to the transformed map of the call of c
CrossMsgs(c, n) ==
  SelectSeq([i \in 1..n |-> <<RunCross(crossValidators[i], calls[c].transformedData)>>],
            LAMBDA m : m # <<"">>)

\* the call of c entered the cross-field pass: it is in its loop, or it is
\* past it with no error under a key other than "_cross_validation"
CrossPassRan(c) ==
  \/ calls[c].pc = "cross"
  \/ calls[c].pc \in {"finalize", "done"} /\ DOMAIN calls[c].errors \subseteq {"_cross_validation"}

\* C17: when the cross-field pass runs, the cross-validators are invoked
\* once each, in registration order, on the transformed map, whether or not
\* earlier ones failed, and the messages of the failing ones are the list
\* under "_cross_validation", in that order.
C17_AllCrossValidatorsRun ==
  \A c \in Callers :
    CrossPassRan(c) =>
      LET call == calls[c]
          n == IF call.pc = "cross" THEN call.cross - 1 ELSE Len(crossValidators)
      IN  /\ call.crossCalls =
               [i \in 1..n |-> [fn |-> crossValidators[i], data |-> call.transformedData]]
          /\ MsgsOf(call.errors, "_cross_validation") = CrossMsgs(c, n)

\* two cross-validators ran and both failed
C17_Witness ==
  /\ calls["c1"].pc = "done"
  /\ crossValidators = <<"passwordsMatch", "confirmIsString">>
  /\ Len(calls["c1"].crossCalls) = 2
  /\ calls["c1"].errors =
       MapPut(EmptyMap, "_cross_validation",
              << <<"Passwords do not match">>, <<"invalid confirmation format">> >>)

\* rule i is to fire in the call of c: its trigger field is declared in the
\* shape, the field's transform succeeded, and the transformed value equals
\* expectedValue with the same dynamic type
ShouldFire(c, i) ==
  LET rule == conditionalRules[i]
  IN  /\ rule.field \in DOMAIN shape
      /\ TransformOf(c, rule.field).err = ""
      /\ LET x == TransformOf(c, rule.field).value
         IN  x.t = rule.expectedValue.t /\ x.v = rule.expectedValue.v

\* C18: the rules whose sub-schema factory a call invoked are exactly the
\* rules visited so far whose trigger field has an entry in the transformed
\* map (declared in the shape, transform succeeded) equal to expectedValue
\* with the same type; a rule on an undeclared field, or on a field whose
\* transform failed, does not fire whatever the raw input holds.
C18_RuleFiresIff ==
  \A c \in Callers :
    LET call == calls[c]
        n == IF call.pc = "conditional" THEN call.rule - 1 ELSE Len(conditionalRules)
    IN  call.pc \in {"conditional", "cross", "finalize", "done"} =>
          call.fired = SelectSeq([i \in 1..n |-> i], LAMBDA i : ShouldFire(c, i))

\* the raw input holds the expected value under a field the shape does not
\* declare, and the rule did not fire
C18_Witness ==
  /\ calls["c1"].pc = "done"
  /\ Len(conditionalRules) = 1
  /\ conditionalRules[1].field \notin DOMAIN shape
  /\ DOMAIN shape # {}
  /\ MapGet(calls["c1"].data, conditionalRules[1].field) = conditionalRules[1].expectedValue
  /\ calls["c1"].fired = <<>>

\* the runtime shape the Type expects of a present value
ExpectedShape(t) ==
  CASE t.kind = "string" -> {"string"}
    [] t.kind = "number" -> NumericTypes
    [] t.kind = "boolean" -> {"bool"}
    [] t.kind = "object" -> {"map"}
    [] t.kind = "array" -> {"slice"}

\* the type-mismatch message of the Type
TypeMismatchError(t, field) ==
  CASE t.kind = "string" -> Get("validation.string", <<GetLabel(t, field)>>)
    [] t.kind = "number" -> Get("validation.numeric", <<GetLabel(t, field)>>)
    [] t.kind = "boolean" -> Get("validation.boolean", <<GetLabel(t, field)>>)
    [] t.kind = "object" -> Get("validation.object", <<GetLabel(t, field)>>)
    [] t.kind = "array" -> <<"alani dizi (array) tipinde olmalidir", GetLabel(t, field)>>

\* C19: type mismatch is terminal for a field.  Validate of a Type of any
\* kind, given a present value whose runtime shape is not the one the Type
\* expects, appends exactly one error, the type-mismatch error under the
\* field's key: no constraint check and no custom rule adds another.
C19_TypeMismatchTerminal ==
  (fop = "Validate" /\ Present /\ fvalue.t \notin ExpectedShape(typ)) =>
    Added(fbefore, fafter) = MapPut(EmptyMap, fkey, <<TypeMismatchError(typ, fkey)>>)

\* the same on a result that holds no error of another field (holds)
C19_OnFreshResult == fbefore = EmptyMap => C19_TypeMismatchTerminal

(***************************************************************************)
(* One CustomValidation (CustomSpec): callbacks and Rules are added to the *)
(* CustomValidation of typ, and ValidateSync is called on it.              *)
(***************************************************************************)
CvFns == {"accept", "reject", "short"}
CvRuleFns == {"reject", "short"}
CvMessages == {"", "not allowed"}
CvValues == {Str(<<"a">>), Str(<<"a", "a">>)}

CvNew ==
  /\ typ' = [String EXCEPT !.customValidation = NewCustomValidation]
  /\ NoCall
  /\ UNCHANGED <<schemaVars, callVars, stepVars, auxVars>>

CvAddSync(fn) ==
  /\ ~typ.customValidation.isNil
  /\ Len(typ.customValidation.syncValidators) < MaxSync
  /\ typ' = [typ EXCEPT !.customValidation = AddSync(@, [wrap |-> "none", fn |-> fn])]
  /\ NoCall
  /\ UNCHANGED <<schemaVars, callVars, stepVars, auxVars>>

CvAddRule(fn, message) ==
  /\ ~typ.customValidation.isNil
  /\ Len(typ.customValidation.rules) < MaxCvRules
  /\ typ' = [typ EXCEPT !.customValidation = AddRule(@, NewRule(fn, message))]
  /\ NoCall
  /\ UNCHANGED <<schemaVars, callVars, stepVars, auxVars>>

CvValidateSync(field, value, result) ==
  /\ ~typ.customValidation.isNil
  /\ fafter' = ValidateSync(typ.customValidation, field, value, result)
  /\ fbefore' = result
  /\ fkey' = field
  /\ fvalue' = value
  /\ fop' = "ValidateSync"
  /\ farg' = Nil
  /\ fout' = NoOut
  /\ UNCHANGED <<typ, schemaVars, callVars, stepVars, auxVars>>

CustomNext ==
  \/ CvNew
  \/ \E fn \in CvFns : CvAddSync(fn)
  \/ \E fn \in CvRuleFns, message \in CvMessages : CvAddRule(fn, message)
  \/ \E value \in CvValues, result \in PendingResults(MaxPending) :
       CvValidateSync("password", value, result)

CustomSpec == Init /\ [][CustomNext]_vars

\* the messages of the failing callbacks, in insertion order
SyncMsgs ==
  LET sync == typ.customValidation.syncValidators
  IN  SelectSeq([i \in 1..Len(sync) |-> <<RunSync(sync[i], fvalue)>>], LAMBDA m : m # <<"">>)

\* the messages of the failing Rules, in insertion order: Message() when it
\* is non-empty, the error's own text otherwise
RuleMsgs ==
  LET rules == typ.customValidation.rules
      text(rule) == IF UserFn(rule.fn, fvalue) = "" THEN ""
                    ELSE IF rule.message # "" THEN rule.message
                    ELSE UserFn(rule.fn, fvalue)
  IN  SelectSeq([i \in 1..Len(rules) |-> <<text(rules[i])>>], LAMBDA m : m # <<"">>)

\* C20: ValidateSync runs every sync callback in insertion order, then every
\* Rule in insertion order, and stops at no failure: what it appends under
\* the field's key is the messages of the failing callbacks followed by the
\* messages of the failing Rules (Message() when non-empty, else the error's
\* text), as many errors as there are failing callbacks and Rules, and it
\* changes nothing else of the result.
C20_ValidateSyncRunsAll ==
  fop = "ValidateSync" =>
    LET cv == typ.customValidation
        failing ==
          Cardinality({i \in 1..Len(cv.syncValidators) :
                         RunSync(cv.syncValidators[i], fvalue) # ""}) +
          Cardinality({i \in 1..Len(cv.rules) : UserFn(cv.rules[i].fn, fvalue) # ""})
    IN  /\ \A f \in DOMAIN fbefore : f # fkey => f \in DOMAIN fafter /\ fafter[f] = fbefore[f]
        /\ DOMAIN fafter \subseteq DOMAIN fbefore \cup {fkey}
        /\ MsgsOf(fafter, fkey) = MsgsOf(fbefore, fkey) \o SyncMsgs \o RuleMsgs
        /\ Len(MsgsOf(fafter, fkey)) = Len(MsgsOf(fbefore, fkey)) + failing

\* a failing callback, a passing one, a failing Rule with a message and a
\* failing Rule without one
C20_Witness ==
  /\ fop = "ValidateSync"
  /\ fvalue = Str(<<"a", "a">>)
  /\ fbefore = EmptyMap
  /\ typ.customValidation.syncValidators =
       <<[wrap |-> "none", fn |-> "reject"], [wrap |-> "none", fn |-> "short"]>>
  /\ typ.customValidation.rules = <<NewRule("reject", "not allowed"), NewRule("reject", "")>>
  /\ fafter = MapPut(EmptyMap, fkey, << <<"rejected">>, <<"not allowed">>, <<"rejected">> >>)

(***************************************************************************)
(* Type.Validate of a String, an AdvancedString or an Array, statement by  *)
(* statement, on a new result (OrderSpec).  log records what has been      *)
(* evaluated: "builtin" for a block of built-in checks or for the          *)
(* validation of one element, "custom" for the custom rule set.            *)
(***************************************************************************)
\* StringType.Validate has returned: AdvancedStringType.Validate goes on
Returned(call) ==
  [call EXCEPT !.pc = IF call.t.kind = "advanced" THEN "advanced" ELSE "done"]

OrderTypes ==
  { Custom(Min(String, 2), "reject"),
    Custom(Email(String), "short"),
    Custom(Elements(Array, Min(String, 2)), "reject"),
    Custom(Elements(Min(Array, 2), Min(String, 2)), "accept"),
    Elements(Array, Required(String)),
    Custom(Array, "reject"),
    Custom(CharSet(AdvancedString, "alpha"), "short"),
    Custom(CharSet(Required(AdvancedString), "alpha"), "accept"),
    CharSet(Min(AdvancedString, 2), "alphanumeric") }
OrderValues ==
  { Nil, Str(<<>>), Str(<<"a">>), Str(<<"a", "1">>), Str(<<"a", ".", ".", "a">>), GoInt(1),
    Slice(<< >>), Slice(<<Str(<<"a">>), Str(<<"a", "a">>)>>) }

VBegin(t, value) ==
  /\ vcall.pc \in {"idle", "done"}
  /\ vcall' = [NoValidate EXCEPT !.pc = "base", !.t = t, !.field = "password",
                                 !.value = value]
  /\ UNCHANGED <<schemaVars, callVars, fieldVars, stepVars, hist, pure>>

\* BaseType.Validate, the gate and the nil check
VBase ==
  /\ vcall.pc = "base"
  /\ LET r == BaseTypeValidate(vcall.t, vcall.field, vcall.value, vcall.errors)
     IN  vcall' = IF HasErrors(r) \/ IsNil(vcall.value)
                    THEN Returned([vcall EXCEPT !.errors = r])
                    ELSE [vcall EXCEPT !.errors = r, !.pc = "type"]
  /\ UNCHANGED <<schemaVars, callVars, fieldVars, stepVars, hist, pure>>

\* the type assertion
VTypeCheck ==
  /\ vcall.pc = "type"
  /\ LET t == vcall.t
         fieldName == GetLabel(t, vcall.field)
     IN  vcall' =
           IF t.kind = "array" /\ vcall.value.t # "slice"
             THEN Returned([vcall EXCEPT !.errors =
                    AddError(@, vcall.field,
                             <<"alani dizi (array) tipinde olmalidir", fieldName>>)])
           ELSE IF t.kind # "array" /\ vcall.value.t # "string"
             THEN Returned([vcall EXCEPT !.errors =
                    AddError(@, vcall.field, Get("validation.string", <<fieldName>>))])
           ELSE [vcall EXCEPT !.pc = "checks"]
  /\ UNCHANGED <<schemaVars, callVars, fieldVars, stepVars, hist, pure>>

\* the built-in checks before the custom rule set
VChecks ==
  /\ vcall.pc = "checks"
  /\ vcall' =
       IF vcall.t.kind = "array"
         THEN [vcall EXCEPT
                 !.errors = ArrayLengthChecks(vcall.t, vcall.field, vcall.value.v, @),
                 !.log = Append(@, "builtin"), !.pc = "custom"]
         ELSE LET b == StringBuiltin(vcall.t, vcall.field, vcall.value, vcall.errors)
                  next == [vcall EXCEPT !.errors = b.errors, !.log = Append(@, "builtin")]
              IN  IF b.returned THEN Returned(next) ELSE [next EXCEPT !.pc = "custom"]
  /\ UNCHANGED <<schemaVars, callVars, fieldVars, stepVars, hist, pure>>

\* the custom rule set
VCustom ==
  /\ vcall.pc = "custom"
  /\ LET t == vcall.t
         runs == ~t.customValidation.isNil /\ HasValidators(t.customValidation)
         next == [vcall EXCEPT
                    !.errors = RunCustom(t, vcall.field, vcall.value, @),
                    !.log = IF runs THEN Append(@, "custom") ELSE @]
     IN  vcall' = IF t.kind = "array" THEN [next EXCEPT !.pc = "elements"]
                                      ELSE Returned(next)
  /\ UNCHANGED <<schemaVars, callVars, fieldVars, stepVars, hist, pure>>

\* the body of the loop over the elements of an array
VElement ==
  /\ vcall.pc = "elements"
  /\ vcall.t.elementSchema # NilType
  /\ vcall.i < Len(vcall.value.v)
  /\ \E e \in NestedValidate(vcall.t.elementSchema, ElementFieldPath(vcall.field, vcall.i),
                             vcall.value.v[vcall.i + 1], vcall.errors) :
       vcall' = [vcall EXCEPT !.errors = e, !.i = @ + 1, !.log = Append(@, "builtin")]
  /\ UNCHANGED <<schemaVars, callVars, fieldVars, stepVars, hist, pure>>

VEndElements ==
  /\ vcall.pc = "elements"
  /\ vcall.t.elementSchema = NilType \/ vcall.i >= Len(vcall.value.v)
  /\ vcall' = [vcall EXCEPT !.pc = "done"]
  /\ UNCHANGED <<schemaVars, callVars, fieldVars, stepVars, hist, pure>>

\* AdvancedStringType.Validate after StringType.Validate
VAdvanced ==
  /\ vcall.pc = "advanced"
  /\ vcall' = [vcall EXCEPT
                 !.pc = "done",
                 !.errors = AdvancedChecks(vcall.t, vcall.field, vcall.value, @),
                 !.log = IF HasErrors(vcall.errors) \/ IsNil(vcall.value)
                              \/ IsNil(vcall.t.charSet)
                           THEN @ ELSE Append(@, "builtin")]
  /\ UNCHANGED <<schemaVars, callVars, fieldVars, stepVars, hist, pure>>

OrderNext ==
  \/ \E t \in OrderTypes, value \in OrderValues : VBegin(t, value)
  \/ VBase
  \/ VTypeCheck
  \/ VChecks
  \/ VCustom
  \/ VElement
  \/ VEndElements
  \/ VAdvanced

OrderSpec == Init /\ [][OrderNext]_vars

\* the stepped call returns what Type.Validate returns
StepsAgree ==
  vcall.pc = "done" =>
    vcall.errors \in NestedValidate(vcall.t, vcall.field, vcall.value, EmptyMap)

\* C21: the custom rule set of a field is evaluated last: once it has run,
\* no built-in check of the field (a check of an AdvancedString after those
\* of its String, the validation of an element of an Array) is evaluated.
C21_CustomLast ==
  \A j, k \in 1..Len(vcall.log) :
    j < k => ~(vcall.log[j] = "custom" /\ vcall.log[k] = "builtin")

\* the same for a String, where it holds
C21_CustomLastOfString == vcall.t.kind = "string" => C21_CustomLast

(***************************************************************************)
(* The builder methods of one schema, with the history of the calls        *)
(* (BuildSpec).                                                            *)
(***************************************************************************)
BuildShapes ==
  { [password |-> Required(String), passwordConfirm |-> Required(String)],
    [password |-> Min(Required(String), 2)],
    [passwordConfirm |-> Required(Number)],
    EmptyMap }

\* the schema becomes vs; op is the method that was called
Built(vs, op) ==
  /\ shape' = vs.shape
  /\ crossValidators' = vs.crossValidators
  /\ conditionalRules' = vs.conditionalRules
  /\ hist' = [hist EXCEPT
                !.op = op,
                !.before = [crossValidators |-> crossValidators,
                            conditionalRules |-> conditionalRules]]
  /\ UNCHANGED <<callVars, fieldVars, stepVars, vcall, pure>>

BuildShape(m) ==
  /\ shape' = SchemaShape(schema, m).shape
  /\ crossValidators' = SchemaShape(schema, m).crossValidators
  /\ conditionalRules' = SchemaShape(schema, m).conditionalRules
  /\ hist' = [op |-> "Shape", lastShape |-> m, prevShape |-> hist.lastShape,
              before |-> [crossValidators |-> crossValidators,
                          conditionalRules |-> conditionalRules]]
  /\ UNCHANGED <<callVars, fieldVars, stepVars, vcall, pure>>

BuildCrossValidate(fn) ==
  /\ Len(crossValidators) < MaxCross
  /\ Built(SchemaCrossValidate(schema, fn), "CrossValidate")

BuildWhen(field, expectedValue, callback) ==
  /\ Len(conditionalRules) < MaxRules
  /\ Built(SchemaWhen(schema, field, expectedValue, callback), "When")

BuildNext ==
  \/ \E m \in BuildShapes : BuildShape(m)
  \/ \E fn \in StepCrossFns : BuildCrossValidate(fn)
  \/ \E f \in FieldNames, e \in ExpectedValues, cb \in Callbacks : BuildWhen(f, e, cb)

BuildSpec == Init /\ [][BuildNext]_vars

\* C22: Shape replaces and never merges.  After any sequence of Shape, When
\* and CrossValidate calls the shape is exactly the map handed to the most
\* recent Shape call, and right after a Shape call the lists of conditional
\* rules and cross-validators are what they were before it.
C22_ShapeReplaces ==
  /\ shape = hist.lastShape
  /\ hist.op = "Shape" =>
       /\ crossValidators = hist.before.crossValidators
       /\ conditionalRules = hist.before.conditionalRules

\* a second Shape call, made after When and CrossValidate, dropped a field of
\* the first
C22_Witness ==
  /\ hist.op = "Shape"
  /\ DOMAIN hist.prevShape = FieldNames
  /\ DOMAIN shape = {"password"}
  /\ Len(crossValidators) > 0 /\ Len(conditionalRules) > 0

(***************************************************************************)
(* Transform of one Object or Array (TransformSpec).                       *)
(***************************************************************************)
TransformTypes ==
  { ObjectShape(Object, [name |-> Trim(String)]),
    ObjectShape(Object, [name |-> Default(Trim(String), Str(<<" ", "a">>)), age |-> Number]),
    ObjectShape(Object, [name |-> Trim(String), tags |-> Elements(Array, Trim(String))]),
    ObjectShape(Object, [inner |-> ObjectShape(Object, [name |-> Trim(String)])]),
    ObjectShape(Required(Object), EmptyMap),
    Elements(Array, Trim(String)),
    Elements(Array, ObjectShape(Object, [name |-> Trim(String)])),
    Elements(Required(Array), Default(Number, GoInt(1))),
    Array }
TransformValues ==
  { Nil, Str(<<"a">>),
    MapVal(EmptyMap),
    MapVal([name |-> Str(<<" ", "a">>), extra |-> GoInt(1)]),
    MapVal([extra |-> Str(<<" ", "a">>)]),
    MapVal([name |-> GoInt(1), age |-> GoInt(1)]),
    MapVal([name |-> Str(<<"a">>), tags |-> Slice(<<Str(<<" ", "a">>), Str(<<"a">>)>>)]),
    MapVal([name |-> GoInt(1), tags |-> Slice(<<GoInt(1)>>)]),
    MapVal([inner |-> MapVal([name |-> Str(<<" ", "a">>), extra |-> GoInt(1)])]),
    Slice(<<Str(<<" ", "a">>), Str(<<"a">>)>>),
    Slice(<<Str(<<"a">>), GoInt(1)>>),
    Slice(<<MapVal([name |-> Str(<<" ", "a">>), extra |-> Str(<<" ", "a">>)])>>) }

TransformType(t) ==
  /\ typ' = t
  /\ NoCall
  /\ UNCHANGED <<schemaVars, callVars, stepVars, auxVars>>

\* fvalue is the caller's value after the call, farg the value as handed over
NestedTransformCall(value) ==
  /\ typ.kind \in NestedKinds
  /\ \E r \in NestedTransform(typ, value) :
       /\ fout' = [value |-> r.value, err |-> r.err]
       /\ fvalue' = r.input
  /\ farg' = value
  /\ fop' = "Transform"
  /\ fkey' = "" /\ fbefore' = EmptyMap /\ fafter' = EmptyMap
  /\ UNCHANGED <<typ, schemaVars, callVars, stepVars, auxVars>>

TransformNext ==
  \/ \E t \in TransformTypes : TransformType(t)
  \/ \E value \in TransformValues : NestedTransformCall(value)

TransformSpec == Init /\ [][TransformNext]_vars

\* ObjectType.Transform has returned a map for an input map
ObjectTransformed ==
  /\ fop = "Transform" /\ typ.kind = "object"
  /\ farg.t = "map" /\ fout.err = "" /\ fout.value.t = "map"

\* C23 (as stated): the map ObjectType.Transform returns holds every
\* undeclared key of the input with its value, every declared child key with
\* the child's transformed value, nil for a declared child that is absent
\* from the input, and the input map is as it was.
C23_AbsentChildIsNil ==
  ObjectTransformed =>
    LET in == farg.v[1]
        out == fout.value.v[1]
    IN  /\ DOMAIN out = DOMAIN in \cup DOMAIN typ.shape
        /\ \A k \in DOMAIN in \ DOMAIN typ.shape : out[k] = in[k]
        /\ \A k \in DOMAIN typ.shape \cap DOMAIN in :
             \E r \in NestedTransform(typ.shape[k], in[k]) : r.err = "" /\ out[k] = r.value
        /\ \A k \in DOMAIN typ.shape \ DOMAIN in : out[k] = Nil
        /\ fvalue = farg

\* C23 (amended): the same, with a declared child that is absent from the
\* input holding the child's Transform of nil: nil, or the child's default
\* put through the child's transform chain.
C23_ObjectTransformKeepsKeys ==
  ObjectTransformed =>
    LET in == farg.v[1]
        out == fout.value.v[1]
    IN  /\ DOMAIN out = DOMAIN in \cup DOMAIN typ.shape
        /\ \A k \in DOMAIN in \ DOMAIN typ.shape : out[k] = in[k]
        /\ \A k \in DOMAIN typ.shape :
             \E r \in NestedTransform(typ.shape[k], MapGet(in, k)) :
               r.err = "" /\ out[k] = r.value
        /\ \A k \in DOMAIN typ.shape \ DOMAIN in :
             IsNil(typ.shape[k].defaultValue) => out[k] = Nil
        /\ fvalue = farg

\* an undeclared key is kept, an absent child without default is nil and an
\* absent child with a default holds the transformed default
C23_Witness ==
  /\ ObjectTransformed
  /\ farg = MapVal([extra |-> Str(<<" ", "a">>)])
  /\ fout.value = MapVal([extra |-> Str(<<" ", "a">>), name |-> Str(<<"a">>), age |-> Nil])

(***************************************************************************)
(* rules.luhnCheck and rules.IsValidCreditCard (CardSpec).  A card number  *)
(* is typed character by character or taken from the numbers of the tests; *)
(* pure holds the input, the predicate applied and its verdict.            *)
(***************************************************************************)
Digits == {"0", "1", "2", "3", "4", "5", "6", "7", "8", "9"}

\* strconv.Atoi of one character, -1 for an error
Atoi(c) ==
  CASE c = "0" -> 0 [] c = "1" -> 1 [] c = "2" -> 2 [] c = "3" -> 3 [] c = "4" -> 4
    [] c = "5" -> 5 [] c = "6" -> 6 [] c = "7" -> 7 [] c = "8" -> 8 [] c = "9" -> 9
    [] OTHER -> -1

\* digit *= 2; if digit > 9 { digit -= 9 }
Doubled(digit) == IF digit * 2 > 9 THEN digit * 2 - 9 ELSE digit * 2

\* the loop of luhnCheck from character i on: the sum, -1 after a non-digit
RECURSIVE LuhnSum(_, _, _, _)
LuhnSum(number, i, isEvenIndex, sum) ==
  IF i > Len(number) THEN sum
  ELSE IF Atoi(number[i]) < 0 THEN -1
  ELSE LuhnSum(number, i + 1, ~isEvenIndex,
               sum + IF isEvenIndex THEN Doubled(Atoi(number[i])) ELSE Atoi(number[i]))

\* mutant: the doubling flag starts as (length is odd)
luhnCheckOddStart(number) ==
  LET sum == LuhnSum(number, 1, Len(number) % 2 = 1, 0)
  IN  sum >= 0 /\ sum % 10 = 0

luhnCheck(number) ==
  LET sum == LuhnSum(number, 1, Len(number) % 2 = 0, 0)
  IN  sum >= 0 /\ sum % 10 = 0

\* regexp.MustCompile(`\D`).ReplaceAllString(cardNumber, "")
StripNonDigits(cardNumber) == SelectSeq(cardNumber, LAMBDA c : c \in Digits)

\* the brand patterns, applied to a string of digits
MatchBrand(cardType, number) ==
  CASE cardType = "visa" -> Len(number) \in {13, 16} /\ number[1] = "4"
    [] cardType = "mastercard" ->
         Len(number) = 16 /\ number[1] = "5" /\ number[2] \in {"1", "2", "3", "4", "5"}
    [] cardType = "amex" -> Len(number) = 15 /\ number[1] = "3" /\ number[2] \in {"4", "7"}
    [] OTHER -> FALSE

IsValidCreditCard(cardNumber, cardType) ==
  LET number == StripNonDigits(cardNumber)
  IN  IF cardType # "" /\ ~MatchBrand(cardType, number) THEN FALSE
      ELSE luhnCheck(number)

MaxCardLen == 3
CardChars == Digits \cup {"-", "a"}
\* the card numbers of TestCreditCardValidation, one of them with dashes
TestCards ==
  { <<"4","5","3","2","0","1","5","1","1","2","8","3","0","3","6","6">>,
    <<"5","4","2","5","2","3","3","4","3","0","1","0","9","9","0","3">>,
    <<"3","7","4","2","4","5","4","5","5","4","0","0","1","2","6">>,
    <<"1","2","3","4","5","6","7","8","9","0","1","2","3","4","5","6">>,
    <<"4","5","3","2","-","0","1","5","1","-","1","1","2","8","-","3","0","3","6","6">> }
CardTypes == {"", "visa", "mastercard", "amex", "other"}

CardInput(input) ==
  /\ pure' = [NoInput EXCEPT !.input = input]
  /\ UNCHANGED <<schemaVars, callVars, fieldVars, stepVars, vcall, hist>>

\* one more character is typed
CardType(c) ==
  /\ Len(pure.input) < MaxCardLen
  /\ CardInput(Append(pure.input, c))

\* one digit of a card number of the tests is replaced by another
CardChangeDigit(i, d) ==
  /\ pure.input \in TestCards
  /\ i \in 1..Len(pure.input)
  /\ pure.input[i] \in Digits \ {d}
  /\ CardInput([pure.input EXCEPT ![i] = d])

LuhnCheckCall ==
  /\ pure' = [pure EXCEPT !.op = "luhnCheck", !.arg = "", !.out = luhnCheck(pure.input)]
  /\ UNCHANGED <<schemaVars, callVars, fieldVars, stepVars, vcall, hist>>

IsValidCreditCardCall(cardType) ==
  /\ pure' = [pure EXCEPT !.op = "IsValidCreditCard", !.arg = cardType,
                          !.out = IsValidCreditCard(pure.input, cardType)]
  /\ UNCHANGED <<schemaVars, callVars, fieldVars, stepVars, vcall, hist>>

CardNext ==
  \/ \E c \in CardChars : CardType(c)
  \/ \E s \in TestCards \cup {<<>>} : CardInput(s)
  \/ \E i \in 1..20, d \in Digits : CardChangeDigit(i, d)
  \/ LuhnCheckCall
  \/ \E cardType \in CardTypes : IsValidCreditCardCall(cardType)

CardSpec == Init /\ [][CardNext]_vars

\* the reference Luhn algorithm: from the right, every second digit doubled
RECURSIVE LuhnReferenceSum(_, _)
LuhnReferenceSum(number, k) ==
  IF k > Len(number) THEN 0
  ELSE LET digit == Atoi(number[Len(number) - k + 1])
       IN  (IF k % 2 = 0 THEN Doubled(digit) ELSE digit) + LuhnReferenceSum(number, k + 1)

LuhnReference(number) == LuhnReferenceSum(number, 1) % 10 = 0

AllDigits(s) == \A i \in 1..Len(s) : s[i] \in Digits

\* C24: for a string of digits luhnCheck gives the verdict of the
\* reference Luhn algorithm, and when it accepts the string it rejects every
\* string that differs from it in one digit.
C24_LuhnMatchesReference ==
  (pure.op = "luhnCheck" /\ AllDigits(pure.input)) =>
    /\ pure.out = LuhnReference(pure.input)
    /\ pure.out => \A i \in 1..Len(pure.input) : \A d \in Digits \ {pure.input[i]} :
                     ~luhnCheck([pure.input EXCEPT ![i] = d])

\* the Visa number of the tests is accepted
C24_Witness ==
  /\ pure.op = "luhnCheck"
  /\ pure.input = <<"4","5","3","2","0","1","5","1","1","2","8","3","0","3","6","6">>
  /\ pure.out

\* C25: IsValidCreditCard returns false for every card number that holds
\* a character outside 0-9.
C25_NonDigitFails ==
  (pure.op = "IsValidCreditCard" /\ ~AllDigits(pure.input)) => ~pure.out

(***************************************************************************)
(* rules.IsValidIBAN (IbanSpec).  The input is an IBAN of the tests or of  *)
(* the IBAN registry's examples, or one of them with one character         *)
(* replaced.                                                               *)
(***************************************************************************)
UpperLetters == <<"A","B","C","D","E","F","G","H","I","J","K","L","M","N","O","P","Q","R","S","T","U","V","W","X","Y","Z">>
LowerLetters == <<"a","b","c","d","e","f","g","h","i","j","k","l","m","n","o","p","q","r","s","t","u","v","w","x","y","z">>

\* the position of c in the sequence s, 0 when it is not there
IndexOf(s, c) == IF \E i \in 1..Len(s) : s[i] = c THEN CHOOSE i \in 1..Len(s) : s[i] = c ELSE 0

\* strings.ToUpper(strings.ReplaceAll(iban, " ", ""))
NormalizeIban(iban) ==
  LET nospace == SelectSeq(iban, LAMBDA c : c # " ")
  IN  [i \in 1..Len(nospace) |->
         IF IndexOf(LowerLetters, nospace[i]) > 0
         THEN UpperLetters[IndexOf(LowerLetters, nospace[i])] ELSE nospace[i]]

ibanCountryLengths == [TR |-> 26, DE |-> 22, GB |-> 22, FR |-> 27, IT |-> 27, NL |-> 18]

\* expectedLength, ok := ibanCountryLengths[countryCode]; ok && len(iban) == expectedLength
ibanLengthOk(iban, countryCode) ==
  /\ countryCode \in DOMAIN ibanCountryLengths
  /\ Len(iban) = ibanCountryLengths[countryCode]

\* ^[A-Z]{2}\d{2}[A-Z0-9]{4,}$
MatchIban(iban) ==
  /\ Len(iban) >= 8
  /\ \A i \in 1..2 : IndexOf(UpperLetters, iban[i]) > 0
  /\ \A i \in 3..4 : iban[i] \in Digits
  /\ \A i \in 5..Len(iban) : iban[i] \in Digits \/ IndexOf(UpperLetters, iban[i]) > 0

\* the remainder modulo 97 of the decimal string in which every letter of
\* rearranged is replaced by char - 'A' + 10, taken character by character
RECURSIVE Mod97(_, _, _)
Mod97(rearranged, i, remainder) ==
  IF i > Len(rearranged) THEN remainder
  ELSE IF rearranged[i] \in Digits
       THEN Mod97(rearranged, i + 1, (remainder * 10 + Atoi(rearranged[i])) % 97)
       ELSE Mod97(rearranged, i + 1,
                  (remainder * 100 + IndexOf(UpperLetters, rearranged[i]) + 9) % 97)

IsValidIBAN(input, countryCode) ==
  LET iban == NormalizeIban(input)
  IN  IF countryCode # "" /\ ~ibanLengthOk(iban, countryCode) THEN FALSE
      ELSE IF ~MatchIban(iban) THEN FALSE
      ELSE Mod97(SubSeq(iban, 5, Len(iban)) \o SubSeq(iban, 1, 4), 1, 0) = 1

\* the IBANs of TestIbanValidation, the registry examples of GB and NL, and
\* the German one in lower case with spaces
TestIbans ==
  { <<"T","R","3","3","0","0","0","6","1","0","0","5","1","9","7","8","6","4","5","7","8","4","1","3","2","6">>,
    <<"D","E","8","9","3","7","0","4","0","0","4","4","0","5","3","2","0","1","3","0","0","0">>,
    <<"G","B","8","2","W","E","S","T","1","2","3","4","5","6","9","8","7","6","5","4","3","2">>,
    <<"N","L","9","1","A","B","N","A","0","4","1","7","1","6","4","3","0","0">>,
    <<"d","e","8","9"," ","3","7","0","4"," ","0","0","4","4"," ","0","5","3","2"," ","0","1","3","0"," ","0","0">>,
    <<"I","N","V","A","L","I","D","1","2","3">>,
    <<>> }
IbanChars == {"0", "1", "A", "a", "D", "E", " ", "-"}
CountryCodes == {"", "TR", "DE", "GB", "NL", "XX"}

IbanInput(input) ==
  /\ pure' = [NoInput EXCEPT !.input = input]
  /\ UNCHANGED <<schemaVars, callVars, fieldVars, stepVars, vcall, hist>>

\* one character of an IBAN of the tests is replaced by another
IbanChangeChar(i, c) ==
  /\ pure.input \in TestIbans
  /\ i \in 1..Len(pure.input)
  /\ pure.input[i] # c
  /\ IbanInput([pure.input EXCEPT ![i] = c])

IsValidIBANCall(countryCode) ==
  /\ pure' = [pure EXCEPT !.op = "IsValidIBAN", !.arg = countryCode,
                          !.out = IsValidIBAN(pure.input, countryCode)]
  /\ UNCHANGED <<schemaVars, callVars, fieldVars, stepVars, vcall, hist>>

IbanNext ==
  \/ \E s \in TestIbans : IbanInput(s)
  \/ \E i \in 1..30, c \in IbanChars : IbanChangeChar(i, c)
  \/ \E countryCode \in CountryCodes : IsValidIBANCall(countryCode)

IbanSpec == Init /\ [][IbanNext]_vars

\* the two-letter country prefix of an IBAN, "" when it has fewer characters
CountryPrefix(input) ==
  LET iban == NormalizeIban(input)
  IN  IF Len(iban) >= 2 THEN iban[1] \o iban[2] ELSE ""

\* C26: with a country code configured, IsValidIBAN returns false for
\* every IBAN whose two-letter country prefix differs from that code.
C26_OtherCountryRejected ==
  (pure.op = "IsValidIBAN" /\ pure.arg # "" /\ CountryPrefix(pure.input) # pure.arg)
    => ~pure.out

\* the IBAN of another country with another length is rejected
C26_OtherLengthRejected ==
  (/\ pure.op = "IsValidIBAN"
   /\ pure.arg # ""
   /\ \/ pure.arg \notin DOMAIN ibanCountryLengths
      \/ Len(NormalizeIban(pure.input)) # ibanCountryLengths[pure.arg])
    => ~pure.out

(***************************************************************************)
(* rules.IsValidUUID (UuidSpec).  The input is a UUID of the tests or one  *)
(* of them with one character replaced.                                    *)
(***************************************************************************)
\* [0-9a-f]
LowerHex == Digits \cup {"a", "b", "c", "d", "e", "f"}

\* ^[0-9a-f]{8}-[0-9a-f]{4}-[0-9a-f]{4}-[0-9a-f]{4}-[0-9a-f]{12}$ over the
\* hexadecimal digits hex
MatchUuid(uuid, hex) ==
  /\ Len(uuid) = 36
  /\ \A i \in 1..36 : IF i \in {9, 14, 19, 24} THEN uuid[i] = "-" ELSE uuid[i] \in hex

IsValidUUID(uuid, version) ==
  CASE version \in {1, 3, 4, 5} ->
         /\ MatchUuid(uuid, LowerHex)
         /\ uuid[15] = ToString(version)
         /\ uuid[20] \in {"8", "9", "a", "b"}
    [] version = 0 -> MatchUuid(uuid, LowerHex)
    [] OTHER -> FALSE

\* the UUIDs of TestUuidValidation
TestUuids ==
  { <<"5","5","0","e","8","4","0","0","-","e","2","9","b","-","4","1","d","4","-","a","7","1","6","-","4","4","6","6","5","5","4","4","0","0","0","0">>,
    <<"5","5","0","E","8","4","0","0","-","E","2","9","B","-","4","1","D","4","-","A","7","1","6","-","4","4","6","6","5","5","4","4","0","0","0","0">>,
    <<"a","0","e","e","b","c","9","9","-","9","c","0","b","-","1","e","f","9","-","b","b","6","d","-","0","0","c","0","4","f","d","4","3","0","c","8">>,
    <<"n","o","t","-","a","-","u","u","i","d">>,
    <<>> }
UuidChars == {"0", "1", "4", "8", "a", "A", "f", "F", "g", "-"}
\* UuidType.Version keeps the versions 0..5
Versions == 0..5

UuidInput(input) ==
  /\ pure' = [NoInput EXCEPT !.input = input]
  /\ UNCHANGED <<schemaVars, callVars, fieldVars, stepVars, vcall, hist>>

\* one character of a UUID of the tests is replaced by another
UuidChangeChar(i, c) ==
  /\ pure.input \in TestUuids
  /\ i \in 1..Len(pure.input)
  /\ pure.input[i] # c
  /\ UuidInput([pure.input EXCEPT ![i] = c])

IsValidUUIDCall(version) ==
  /\ pure' = [pure EXCEPT !.op = "IsValidUUID", !.version = version,
                          !.out = IsValidUUID(pure.input, version)]
  /\ UNCHANGED <<schemaVars, callVars, fieldVars, stepVars, vcall, hist>>

UuidNext ==
  \/ \E s \in TestUuids : UuidInput(s)
  \/ \E i \in 1..36, c \in UuidChars : UuidChangeChar(i, c)
  \/ \E version \in Versions : IsValidUUIDCall(version)

UuidSpec == Init /\ [][UuidNext]_vars

\* the string s with its upper-case letters in lower case
ToLower(s) ==
  [i \in 1..Len(s) |->
     IF IndexOf(UpperLetters, s[i]) > 0 THEN LowerLetters[IndexOf(UpperLetters, s[i])]
     ELSE s[i]]

\* C27: a string that is a UUID of the requested version when written in
\* lower case is accepted however the case of its hexadecimal digits is.
C27_CaseInsensitive ==
  (pure.op = "IsValidUUID" /\ IsValidUUID(ToLower(pure.input), pure.version)) => pure.out

(***************************************************************************)
(* core.RegexRule (RegexSpec).  A string is typed, a rule made by          *)
(* NewRegexRule is applied to it, alone and attached to a rule set.        *)
(***************************************************************************)
MaxSlugLen == 3
SlugChars == {"a", "0", "-", "A"}
\* the pattern of the example in NewRegexRule's comment, and one for digits
Patterns == {"^[a-z0-9-]+$", "^[0-9]+$"}
SlugMessage == "Must be a valid slug"

RegexType(c) ==
  /\ Len(pure.input) < MaxSlugLen
  /\ pure' = [NoInput EXCEPT !.input = Append(pure.input, c)]
  /\ UNCHANGED <<schemaVars, callVars, fieldVars, stepVars, vcall, hist>>

RegexClear ==
  /\ pure' = NoInput
  /\ UNCHANGED <<schemaVars, callVars, fieldVars, stepVars, vcall, hist>>

\* rule := NewRegexRule(pattern, message); rule.Validate(value); and
\* NewCustomValidation().AddRule(rule).ValidateSync("slug", value, result)
RegexRuleCall(pattern) ==
  LET rule == NewRegexRule(pattern, SlugMessage)
      value == Str(pure.input)
  IN  /\ pure' = [pure EXCEPT
                    !.op = "RegexRule.Validate", !.arg = pattern,
                    !.out = (UserFn(rule.fn, value) = ""),
                    !.errors = ValidateSync(AddRule(NewCustomValidation, rule),
                                            "slug", value, <<>>)]
      /\ UNCHANGED <<schemaVars, callVars, fieldVars, stepVars, vcall, hist>>

RegexNext ==
  \/ \E c \in SlugChars : RegexType(c)
  \/ RegexClear
  \/ \E pattern \in Patterns : RegexRuleCall(pattern)

RegexSpec == Init /\ [][RegexNext]_vars

\* whether the string s matches the pattern, for the patterns of Patterns
Matches(pattern, s) ==
  /\ Len(s) >= 1
  /\ \A i \in 1..Len(s) :
       \/ s[i] \in Digits
       \/ pattern = "^[a-z0-9-]+$" /\ (s[i] = "-" \/ IndexOf(LowerLetters, s[i]) > 0)

\* C28: the Validate of a rule made by NewRegexRule returns nil for a
\* string that matches the pattern and an error for one that does not, and
\* attached to a field it adds its message for the strings that do not match.
C28_RegexRuleChecksPattern ==
  pure.op = "RegexRule.Validate" =>
    /\ pure.out = Matches(pure.arg, pure.input)
    /\ pure.errors = IF Matches(pure.arg, pure.input) THEN <<>>
                     ELSE AddError(<<>>, "slug", <<SlugMessage>>)

\* no string is ever rejected by the rule
C28_RegexRuleAcceptsAll ==
  pure.op = "RegexRule.Validate" => pure.out /\ pure.errors = <<>>

(***************************************************************************)
(* Validate on records with keys outside the shape and with sub-schemas    *)
(* that declare fields and transforms of their own (KeysSpec).             *)
(***************************************************************************)
KeyNames == FieldNames \cup {"extra"}
KeyValues == {Str(<<" ", "a">>), Str(<<"a">>), GoInt(1)}
KeyInputs == Maps(KeyNames, KeyValues)
KeyShapes == Maps(FieldNames, {String, Trim(String), Required(Number)})
\* a sub-schema that trims password and declares passwordConfirm with a
\* default, and one that requires passwordConfirm
KeyCallbacks ==
  { [Make EXCEPT !.shape =
       [password |-> Trim(String),
        passwordConfirm |-> Default(Trim(String), Str(<<" ", "a">>))]],
    [Make EXCEPT !.shape = MapPut(EmptyMap, "passwordConfirm", Required(String))] }
KeyExpected == {Str(<<" ", "a">>), Str(<<"a">>)}

KeysNext ==
  \/ \E m \in KeyShapes : Shape(m)
  \/ \E e \in KeyExpected, cb \in KeyCallbacks : When("password", e, cb)
  \/ \E d \in KeyInputs : Receive(d)
  \/ Validate

KeysSpec == Init /\ [][KeysNext]_vars

\* C29: after a Validate call without errors validData has the keys of
\* the shape and holds for each the value its own Type's transforms made of
\* the input; the input's other keys, and the fields and transforms of a
\* sub-schema that was run, leave no trace in it.
C29_ValidDataKeysAreShapeKeys ==
  (called /\ ~HasErrors(errors)) =>
    /\ DOMAIN validData = DOMAIN shape
    /\ \A f \in DOMAIN shape :
         validData[f] = TypeTransform(shape[f], MapGet(data, f)).value

\* a call without errors on a record with an undeclared key, in which a rule
\* fired whose sub-schema declares a field the shape has not and trims a
\* value the shape leaves untrimmed
C29_Witness ==
  /\ called /\ ~HasErrors(errors)
  /\ "extra" \in DOMAIN data
  /\ Len(run.subErrors) = 1
  /\ DOMAIN shape = {"password"}
  /\ "passwordConfirm" \in DOMAIN conditionalRules[1].callback.shape
  /\ validData["password"] = Str(<<" ", "a">>)
  /\ conditionalRules[1].callback.shape["password"] = Trim(String)

(***************************************************************************)
(* Validate on records that hold maps and lists (FrameSpec).  The passes   *)
(* are those of SchemaValidate with the Transform and Validate of nested   *)
(* Types; every outcome carries input, the caller's record after the call. *)
(***************************************************************************)
\* 1) the transform pass: acc is [transformedData, errors, input]
RECURSIVE NestedTransformPass(_, _, _, _)
NestedTransformPass(sh, ord, i, acc) ==
  IF i > Len(ord) THEN {acc}
  ELSE LET field == ord[i]
       IN  UNION { NestedTransformPass(sh, ord, i + 1,
                     [transformedData |->
                        IF r.err = "" THEN MapPut(acc.transformedData, field, r.value)
                        ELSE acc.transformedData,
                      errors |->
                        IF r.err # ""
                          THEN AddError(acc.errors, field, <<"Donusum hatasi", r.err>>)
                          ELSE acc.errors,
                      input |->
                        IF field \in DOMAIN acc.input THEN MapPut(acc.input, field, r.input)
                        ELSE acc.input])
                   : r \in NestedTransform(sh[field], MapGet(acc.input, field)) }

\* 2) the field-level pass
RECURSIVE NestedFieldPass(_, _, _, _, _)
NestedFieldPass(sh, transformedData, ord, i, errs) ==
  IF i > Len(ord) THEN {errs}
  ELSE UNION { NestedFieldPass(sh, transformedData, ord, i + 1, e)
               : e \in NestedValidate(sh[ord[i]], ord[i],
                                      MapGet(transformedData, ord[i]), errs) }

SchemaValidateNested(vs, input) ==
  LET keys == DOMAIN vs.shape
      NewResult == [errors |-> EmptyMap, transformedData |-> EmptyMap, input |-> input]
  IN  UNION { UNION { { [result |-> Finish(vs, t, own, cond), input |-> t.input]
                        : cond \in ConditionalPass(vs.conditionalRules, t.transformedData, 1,
                                                   [errors |-> own, subErrors |-> <<>>]) }
                      : own \in UNION { NestedFieldPass(vs.shape, t.transformedData, vo, 1,
                                                        t.errors)
                                        : vo \in Orders(keys) } }
              : t \in UNION { NestedTransformPass(vs.shape, to, 1, NewResult)
                              : to \in Orders(keys) } }

FrameShapes ==
  { [name |-> Min(Trim(String), 2)],
    [name |-> Trim(String), profile |-> ObjectShape(Object, [name |-> Trim(String)])],
    [name |-> String, tags |-> Elements(Array, Trim(String))],
    [name |-> String, tags |-> Array],
    [name |-> String,
     profile |-> ObjectShape(Required(Object), [name |-> Min(Required(Trim(String)), 2)]),
     tags |-> Elements(Array, ObjectShape(Object, [name |-> Trim(String)]))] }
FrameInputs ==
  { EmptyMap,
    [name |-> Str(<<" ", "a">>)],
    [name |-> Str(<<"a">>), extra |-> MapVal([name |-> Str(<<" ", "a">>)])],
    [name |-> Str(<<"a">>), profile |-> MapVal([name |-> Str(<<" ", "a">>), extra |-> GoInt(1)])],
    [name |-> Str(<<"a">>), profile |-> MapVal([name |-> Str(<<"a", "a", " ">>)])],
    [name |-> Str(<<"a">>), tags |-> Slice(<<Str(<<" ", "a">>), Str(<<"a">>)>>)],
    [profile |-> GoInt(1), tags |-> Slice(<<GoInt(1)>>)],
    [name |-> Str(<<"a">>),
     profile |-> MapVal([name |-> Str(<<" ", "a", "a">>)]),
     tags |-> Slice(<<MapVal([name |-> Str(<<" ", "a">>)])>>)] }
\* a sub-schema that trims name and one that rejects every name
FrameCallbacks ==
  { [Make EXCEPT !.shape = [name |-> Trim(String)]],
    [Make EXCEPT !.shape = [name |-> Custom(String, "reject")]] }

\* Validate(data): data is the caller's record after the call, farg the
\* record as it was handed over
FrameValidate ==
  /\ \E o \in SchemaValidateNested(schema, data) :
       /\ errors' = o.result.errors
       /\ validData' = o.result.validData
       /\ run' = [transformedData |-> o.result.transformedData,
                  transformErrors |-> o.result.transformErrors,
                  ownErrors |-> o.result.ownErrors,
                  subErrors |-> o.result.subErrors,
                  crossCalls |-> o.result.crossCalls]
       /\ data' = o.input
  /\ called' = TRUE
  /\ farg' = MapVal(data)
  /\ fop' = "Validate"
  /\ UNCHANGED <<typ, fkey, fvalue, fbefore, fafter, fout>>
  /\ UNCHANGED <<schemaVars, stepVars, auxVars>>

FrameNext ==
  \/ \E m \in FrameShapes : Shape(m)
  \/ \E cb \in FrameCallbacks : When("name", Str(<<"a">>), cb)
  \/ \E d \in FrameInputs : Receive(d)
  \/ FrameValidate

FrameSpec == Init /\ [][FrameNext]_vars

\* C30: after a Validate call the caller's record has the keys and the
\* values it had when it was handed over.
C30_InputUnchanged ==
  (called /\ fop = "Validate") => data = farg.v[1]

\* a call without errors in which a rule fired and whose validData holds a
\* trimmed nested map and a list of trimmed maps where the input holds the
\* untrimmed ones
C30_Witness ==
  /\ called /\ fop = "Validate" /\ ~HasErrors(errors)
  /\ Len(run.subErrors) > 0
  /\ DOMAIN validData = {"name", "profile", "tags"}
  /\ {"profile", "tags"} \subseteq DOMAIN data
  /\ validData["profile"] # data["profile"]
  /\ validData["tags"] # data["tags"]

\* a failed call, and one in which a rule fired, on a record with a nested map
C30_WitnessFailed ==
  /\ called /\ fop = "Validate" /\ HasErrors(errors)
  /\ Len(run.subErrors) > 0
  /\ "extra" \in DOMAIN data

==========================================================================
